---- MODULE Spec2Model ----
(***************************************************************************)
(* Claimify: the claim-extraction pipeline (src/claimify.ts), its          *)
(* deterministic steps (src/unnamed/part_000, imported by the pipeline as  *)
(* ./deterministic/claimify) and the single-turn baseline                  *)
(* (src/singleturn/claimify.ts).                                           *)
(*                                                                         *)
(* JSON artifacts are modelled as values: an array is a sequence, an       *)
(* object is a function from field names to values (a TLA+ record), the    *)
(* pruned marker {} is the function with the empty domain.  Array indices  *)
(* keep the 0-based numbering of the source; At(a, i) is a[i].             *)
(***************************************************************************)
EXTENDS Integers, Sequences, FiniteSets, TLC

\* ------------------------------------------------------------------------
\* Bounds of the model
\* ------------------------------------------------------------------------
MaxDocs == 2
MaxSents == 2
MaxTotal == 2
MaxClaims == 2
MaxExcerptLen == 5
MaxWindow == 3

\* ------------------------------------------------------------------------
\* JavaScript values
\* ------------------------------------------------------------------------
JsUndefined == "<undefined>"

EmptyObject == [k \in {} |-> ""]

ObjectKeys(o) == DOMAIN o

IsEmptyObject(o) == Cardinality(ObjectKeys(o)) = 0

Get(o, k) == IF k \in DOMAIN o THEN o[k] ELSE JsUndefined

\* a[i]: undefined outside the array
At(a, i) == IF i >= 0 /\ i < Len(a) THEN a[i + 1] ELSE JsUndefined

Min(a, b) == IF a < b THEN a ELSE b

Max(a, b) == IF a > b THEN a ELSE b

\* Array.prototype.slice(start, end)
JsSlice(a, start, end) ==
    LET len == Len(a)
        from == IF start < 0 THEN Max(len + start, 0) ELSE Min(start, len)
        to == IF end < 0 THEN Max(len + end, 0) ELSE Min(end, len)
    IN  IF from >= to THEN << >> ELSE SubSeq(a, from + 1, to)

\* the string join() uses for an element: undefined becomes the empty string
JoinText(x) == IF x = JsUndefined THEN "" ELSE x

\* Array.prototype.join(sep) on an array of strings
RECURSIVE JsJoin(_, _)
JsJoin(a, sep) ==
    IF Len(a) = 0 THEN ""
    ELSE IF Len(a) = 1 THEN JoinText(a[1])
    ELSE JoinText(a[1]) \o sep \o JsJoin(Tail(a), sep)

\* a string stored in a field that holds either a string or an object
JsString(s) == [string |-> s]

\* typeof v === "string", for such a field
IsJsString(v) == DOMAIN v = {"string"}

\* { ...o, k: v }
Spread(o, k, v) == [f \in (DOMAIN o) \cup {k} |-> IF f = k THEN v ELSE o[f]]

\* the fields that hold free text and may be undefined when a record is built
TextFields == {"query", "excerpt", "sentence", "originalSentence"}

\* JSON.parse(JSON.stringify(o)) of one object: undefined-valued keys vanish
JsonObject(o) ==
    [f \in {g \in DOMAIN o : ~(g \in TextFields /\ o[g] = JsUndefined)} |-> o[f]]

\* JSON.parse(JSON.stringify(a)) of an array of arrays of objects
JsonGrouped(a) == [d \in DOMAIN a |-> [i \in DOMAIN a[d] |-> JsonObject(a[d][i])]]

\* `ERROR: ${llmError}`
LlmError == "Error: provider failure"

ErrorMarker == "ERROR: " \o LlmError

\* ------------------------------------------------------------------------
\* ContextWindowBuilder
\* ------------------------------------------------------------------------
\* variant: the preceding count is not limited to the sentences available
contextPartsUnclamped(allSentences, targetIndex, p, f) ==
    LET numSentences == Len(allSentences)
        precedingSentences == JsSlice(allSentences, targetIndex - p, targetIndex)
        actualF == Min(f, numSentences - 1 - targetIndex)
        followingSentences == JsSlice(allSentences, targetIndex + 1, targetIndex + 1 + actualF)
    IN  precedingSentences \o << At(allSentences, targetIndex) >> \o followingSentences

contextParts(allSentences, targetIndex, p, f) ==
    LET numSentences == Len(allSentences)
        actualP == Min(p, targetIndex)
        precedingSentences == JsSlice(allSentences, targetIndex - actualP, targetIndex)
        actualF == Min(f, numSentences - 1 - targetIndex)
        followingSentences == JsSlice(allSentences, targetIndex + 1, targetIndex + 1 + actualF)
    IN  precedingSentences \o << At(allSentences, targetIndex) >> \o followingSentences

createExcerpt(allSentences, targetIndex, p, f) ==
    JsJoin(contextParts(allSentences, targetIndex, p, f), " ")

\* variant: the window ends before the last following sentence
baselineWindowShort(tokenizedSentences, sentenceIndex, preceding, following) ==
    LET start == Max(0, sentenceIndex - preceding)
        end == Min(Len(tokenizedSentences), sentenceIndex + following)
    IN  JsSlice(tokenizedSentences, start, end)

baselineWindow(tokenizedSentences, sentenceIndex, preceding, following) ==
    LET start == Max(0, sentenceIndex - preceding)
        end == Min(Len(tokenizedSentences), sentenceIndex + following + 1)
    IN  JsSlice(tokenizedSentences, start, end)

baselineCreateExcerpt(tokenizedSentences, sentenceIndex, preceding, following) ==
    JsJoin(baselineWindow(tokenizedSentences, sentenceIndex, preceding, following), " ")

\* ------------------------------------------------------------------------
\* Artifacts on disk
\* ------------------------------------------------------------------------
SourceFile == "claim_data/bingCheck_tokenized_truncated.json"
SelectionInputFile == "claim_data/selection_input.json"
SelectionOutputFile == "claim_data/selection_output.json"
PrunedFile == "claim_data/selection_output_pruned.json"
DisambiguationInputFile == "claim_data/disambiguiation_input.json"
DisambiguationOutputFile == "claim_data/disambiguiation_output.json"
DecompositionOutputFile == "claim_data/decomposition_output.json"
EntailmentOutputFile == "claim_data/entailment_evalation.json"
ExtractedElementsFile == "claim_data/extracted_elements.json"
CoverageOutputFile == "claim_data/claimify_element_val_output.json"
BaselineOutputFile == "claim_data/baseline_output.json"
BaselineEntailmentFile == "claim_data/baseline_output_eval_entailment.json"
BaselineCoverageInputFile == "claim_data/baseline_element_eval_input.json"
BaselineCoverageOutputFile == "claim_data/baseline_element_eval_output.json"

FileNames ==
    {SourceFile, SelectionInputFile, SelectionOutputFile, PrunedFile,
     DisambiguationInputFile, DisambiguationOutputFile, DecompositionOutputFile,
     EntailmentOutputFile, ExtractedElementsFile, CoverageOutputFile,
     BaselineOutputFile, BaselineEntailmentFile, BaselineCoverageInputFile,
     BaselineCoverageOutputFile}

Absent == [exists |-> FALSE, array |-> FALSE, data |-> << >>]

Written(a) == [exists |-> TRUE, array |-> TRUE, data |-> a]

\* a file whose JSON is not an array
NotAnArray == [exists |-> TRUE, array |-> FALSE, data |-> << >>]

\* Array.isArray(JSON.parse(readFileSync(...)))
IsArray(file) == file.exists /\ file.array

NoFiles == [n \in FileNames |-> Absent]

\* the parameters main() passes to the two context builders
ContextP == 5
ContextF == 5
DisambiguationP == 5
DisambiguationF == 0

\* ------------------------------------------------------------------------
\* Source documents (ProcessedDataItem); d and i are 0-based
\* ------------------------------------------------------------------------
SentenceText(d, i) == "s" \o ToString(d) \o ToString(i)

QueryText(d) == "q" \o ToString(d)

NoTokens == 0 - 1

\* a document with n sentences, or without tokenized_response when n = NoTokens
Document(d, n) ==
    LET base == [filename |-> "f" \o ToString(d), query |-> QueryText(d),
                 response |-> "r" \o ToString(d)]
    IN  IF n = NoTokens THEN base
        ELSE Spread(base, "tokenized_response", [i \in 1..n |-> SentenceText(d, i - 1)])

RECURSIVE SumSeq(_)
SumSeq(s) == IF Len(s) = 0 THEN 0 ELSE Max(s[1], 0) + SumSeq(Tail(s))

Shapes ==
    {sh \in UNION {[1..n -> (0..MaxSents) \cup {NoTokens}] : n \in 0..MaxDocs} :
        SumSeq(sh) <= MaxTotal}

DocumentList(sh) == [d \in DOMAIN sh |-> Document(d - 1, sh[d])]

HasTokens(doc) ==
    "tokenized_response" \in DOMAIN doc

\* ------------------------------------------------------------------------
\* Deterministic steps
\* ------------------------------------------------------------------------
\* createContext: the array written to the output file
createContextData(data, p, f) ==
    [d \in DOMAIN data |->
        LET item == data[d]
            excerpts ==
                IF HasTokens(item)
                THEN [i \in DOMAIN item.tokenized_response |->
                        createExcerpt(item.tokenized_response, i - 1, p, f)]
                ELSE << >>
        IN  Spread(item, "excerpts", excerpts)]

NoVerifiableContent == "None"

\* variant: the filter reads the verdict instead of the rewrite
filterItemByVerdict(item) ==
    IF Get(item, "finalSubmission") = "Does NOT contain a specific and verifiable proposition"
    THEN EmptyObject
    ELSE item

filterItem(item) ==
    IF Get(item, "sentenceWithOnlyVerifiableInformation") = NoVerifiableContent
    THEN EmptyObject
    ELSE item

\* filterVerifiableInformation: the array written to the output file
filteredData(data) == [d \in DOMAIN data |-> [i \in DOMAIN data[d] |-> filterItem(data[d][i])]]

\* variant: the context is added to every slot, the pruned ones included
dataWithExcerptsForAll(filtered, originalDocuments, p, f) ==
    [d \in DOMAIN filtered |->
        LET docFilteredSentences == filtered[d]
            missing == d > Len(originalDocuments) \/ ~HasTokens(originalDocuments[d])
        IN  [i \in DOMAIN docFilteredSentences |->
                LET filteredItem == docFilteredSentences[i]
                IN  IF missing THEN Spread(filteredItem, "excerpt", "")
                    ELSE LET originalDoc == originalDocuments[d]
                             excerpt == createExcerpt(originalDoc.tokenized_response, i - 1, p, f)
                         IN  Spread(Spread(filteredItem, "query", originalDoc.query),
                                    "excerpt", excerpt)]]

\* unsafe_createContext: the array written to the output file
dataWithExcerpts(filtered, originalDocuments, p, f) ==
    [d \in DOMAIN filtered |->
        LET docFilteredSentences == filtered[d]
            missing == d > Len(originalDocuments) \/ ~HasTokens(originalDocuments[d])
        IN  [i \in DOMAIN docFilteredSentences |->
                LET filteredItem == docFilteredSentences[i]
                IN  IF IsEmptyObject(filteredItem) THEN EmptyObject
                    ELSE IF missing THEN Spread(filteredItem, "excerpt", "")
                    ELSE LET originalDoc == originalDocuments[d]
                             excerpt == createExcerpt(originalDoc.tokenized_response, i - 1, p, f)
                         IN  Spread(Spread(filteredItem, "query", originalDoc.query),
                                    "excerpt", excerpt)]]

\* ------------------------------------------------------------------------
\* The generation capability: the schema-valid objects generateObject may
\* return for one call (a call may also fail)
\* ------------------------------------------------------------------------
Contains == "Contains a specific and verifiable proposition"
DoesNotContain == "Does NOT contain a specific and verifiable proposition"
RemainsUnchanged == "remains unchanged"
CannotBeDecontextualized == "Cannot be decontextualized"
Entails == "S entails all elements of C"
DoesNotEntail == "S does not entail all elements of C"
Verifiable == "contains verifiable information"
NotVerifiable == "does not contain verifiable information"
FullyCovered == "fully covered by C"
NotCovered == "not covered by C"
CorrectlyNotCovered == "not verifiable - correctly not covered by C"

\* SelectionOutputSchema: any verdict with any string as the rewrite
SelectionAnswers(sentence) ==
    {<<Contains, RemainsUnchanged>>, <<Contains, "Remains Unchanged">>,
     <<Contains, "v:" \o sentence>>, <<DoesNotContain, NoVerifiableContent>>,
     <<DoesNotContain, "v:" \o sentence>>}

SelectionLlmOutputs(sentence) ==
    {[sentence |-> sentence, finalSubmission |-> a[1],
      sentenceWithOnlyVerifiableInformation |-> a[2]] : a \in SelectionAnswers(sentence)}

\* DisambiguationOutputSchema: the boolean and the text are independent
DisambiguationLlmOutputs(sentence) ==
    {[incompleteNamesAnalysis |-> "names", linguisticAmbiguityAnalysis |-> "ambiguity",
      canBeDisambiguated |-> b, changesNeeded |-> "changes",
      decontextualizedSentence |-> t] :
        b \in BOOLEAN, t \in {"d:" \o sentence, CannotBeDecontextualized}}

Propositions(prefix, sentence, n) == [j \in 1..n |-> prefix \o ToString(j) \o ":" \o sentence]

\* DecompositionOutputSchema: two arrays of strings, of any lengths
PropositionCounts == {<<n, n>> : n \in 0..MaxClaims} \cup {<<1, 0>>}

DecompositionLlmOutputs(sentence) ==
    {[sentence |-> sentence, referentialTermsAnalysis |-> "terms",
      maxClarifiedSentence |-> "m:" \o sentence, propositionRange |-> "range",
      specificVerifiablePropositions |-> Propositions("p", sentence, c[1]),
      propositionsWithContext |-> Propositions("c", sentence, c[2])] :
        c \in PropositionCounts}

\* EntailmentOutputSchema
EntailmentLlmOutputs(sentence, claim) ==
    {[sentenceS |-> sentence, contextDescription |-> "context", claimC |-> claim,
      claimInterpretation |-> "interpretation", elementsOfC |-> << "element" >>,
      statementsAndActionsRuleApplies |-> FALSE,
      statementsAndActionsRuleReasoning |-> "reasoning",
      elementAnalysis |-> "analysis", finalConclusion |-> c] :
        c \in {Entails, DoesNotEntail}}

\* ElementExtractionSchema
ElementLists ==
    {<< >>,
     << [element |-> "e1", verifiability |-> Verifiable],
        [element |-> "e2", verifiability |-> NotVerifiable] >>}

ElementExtractionLlmOutputs(sentence) ==
    {[originalSentence |-> sentence, clarificationsNeeded |-> "no",
      restatedSentence |-> sentence, statementsAndActionsRuleApplies |-> FALSE,
      statementsAndActionsRuleExplanation |-> "explanation", elements |-> e] :
        e \in ElementLists}

\* ElementCoverageEvaluationSchema: the metrics are four numbers the
\* generation capability returns
CoverageStatus(element, covered) ==
    IF element.verifiability = Verifiable
    THEN (IF covered THEN FullyCovered ELSE NotCovered)
    ELSE CorrectlyNotCovered

CoverageLlmOutputs(elements) ==
    {[elementCoverageResults |->
        [j \in DOMAIN elements |->
            [element |-> elements[j].element,
             coverageStatus |-> CoverageStatus(elements[j], covered)]],
      overallSummary |-> "summary",
      metrics |-> [truePositives |-> m[1], falseNegatives |-> m[2],
                   falsePositives |-> m[3], trueNegatives |-> m[4]]] :
        covered \in BOOLEAN, m \in {<<0, 0, 0, 0>>, <<1, 0, 0, 1>>, <<0, 1, 0, 1>>}}

\* ------------------------------------------------------------------------
\* The records a stage stores for one slot
\* ------------------------------------------------------------------------
\* claimifySelection: the record built in the catch block
SelectionErrorOutput(filename, i, sentence) ==
    [filename |-> filename, originalSentenceIndex |-> i, sentence |-> sentence,
     finalSubmission |-> DoesNotContain,
     sentenceWithOnlyVerifiableInformation |-> ErrorMarker]

\* claimifySelection: currentFileSelectionOutputs after a failed call
SelectionAfterError(outputs, errorOutput) == outputs

sentenceForPrompt(sentenceData) ==
    IF Get(sentenceData, "sentenceWithOnlyVerifiableInformation") = RemainsUnchanged
    THEN Get(sentenceData, "sentence")
    ELSE Get(sentenceData, "sentenceWithOnlyVerifiableInformation")

WithContext(o, query, excerpt) == Spread(Spread(o, "query", query), "excerpt", excerpt)

DisambiguationSuccess(sentenceData, llmOutput) ==
    WithContext(Spread(llmOutput, "originalSentence", sentenceForPrompt(sentenceData)),
                Get(sentenceData, "query"), Get(sentenceData, "excerpt"))

\* variant: the record of a failed call says the sentence can be disambiguated
DisambiguationErrorOutputOpen ==
    [incompleteNamesAnalysis |-> ErrorMarker, linguisticAmbiguityAnalysis |-> ErrorMarker,
     canBeDisambiguated |-> TRUE, changesNeeded |-> ErrorMarker,
     decontextualizedSentence |-> ErrorMarker]

DisambiguationErrorOutput ==
    [incompleteNamesAnalysis |-> ErrorMarker, linguisticAmbiguityAnalysis |-> ErrorMarker,
     canBeDisambiguated |-> FALSE, changesNeeded |-> ErrorMarker,
     decontextualizedSentence |-> ErrorMarker]

DisambiguationError(sentenceData) ==
    WithContext(Spread(DisambiguationErrorOutput, "originalSentence",
                       sentenceForPrompt(sentenceData)),
                Get(sentenceData, "query"), Get(sentenceData, "excerpt"))

\* variant: the text of the sentence decides as well
cannotBeDisambiguatedByText(disambiguationData) ==
    IF disambiguationData.canBeDisambiguated
    THEN disambiguationData.decontextualizedSentence = CannotBeDecontextualized
    ELSE TRUE

\* claimifyDecomposition: the slot is pruned without a call
cannotBeDisambiguated(disambiguationData) == ~disambiguationData.canBeDisambiguated

DecompositionSuccess(disambiguationData, llmOutput) ==
    WithContext(llmOutput, Get(disambiguationData, "query"), Get(disambiguationData, "excerpt"))

\* variant: the record of a failed call holds the sentence as its proposition
DecompositionErrorOutputGuess(decontextualizedSentence) ==
    [sentence |-> decontextualizedSentence, referentialTermsAnalysis |-> ErrorMarker,
     maxClarifiedSentence |-> ErrorMarker, propositionRange |-> ErrorMarker,
     specificVerifiablePropositions |-> << decontextualizedSentence >>,
     propositionsWithContext |-> << >>]

DecompositionErrorOutput(decontextualizedSentence) ==
    [sentence |-> decontextualizedSentence, referentialTermsAnalysis |-> ErrorMarker,
     maxClarifiedSentence |-> ErrorMarker, propositionRange |-> ErrorMarker,
     specificVerifiablePropositions |-> << >>, propositionsWithContext |-> << >>]

DecompositionError(disambiguationData) ==
    WithContext(DecompositionErrorOutput(disambiguationData.decontextualizedSentence),
                Get(disambiguationData, "query"), Get(disambiguationData, "excerpt"))

EntailmentSuccess(claim, llmResponse) == [claim |-> claim, entailmentEvaluation |-> llmResponse]

EntailmentError(claim) == [claim |-> claim, entailmentEvaluation |-> JsString(ErrorMarker)]

\* variant: a sentence without evaluations is stored as the pruned marker
EntailmentSentenceOrPruned(evaluations) ==
    IF Len(evaluations) = 0 THEN EmptyObject ELSE [claimEvaluations |-> evaluations]

EntailmentSentence(evaluations) == [claimEvaluations |-> evaluations]

BaselineEntailmentSuccess(claimData, llmResponse) ==
    Spread(claimData, "entailmentEvaluation", llmResponse)

BaselineEntailmentErrorOutput(sentence, claim) ==
    [sentenceS |-> sentence, contextDescription |-> ErrorMarker, claimC |-> claim,
     claimInterpretation |-> ErrorMarker, elementsOfC |-> << >>,
     statementsAndActionsRuleApplies |-> FALSE,
     statementsAndActionsRuleReasoning |-> ErrorMarker,
     elementAnalysis |-> ErrorMarker, finalConclusion |-> DoesNotEntail]

BaselineEntailmentError(claimData) ==
    Spread(claimData, "entailmentEvaluation",
           BaselineEntailmentErrorOutput(claimData.sentence, claimData.claim))

ElementExtractionSuccess(decompositionData, llmResponse) ==
    [query |-> Get(decompositionData, "query"), excerpt |-> Get(decompositionData, "excerpt"),
     sentence |-> decompositionData.sentence, elementExtraction |-> llmResponse,
     claims |-> decompositionData.propositionsWithContext]

ElementExtractionError(decompositionData) ==
    [query |-> Get(decompositionData, "query"), excerpt |-> Get(decompositionData, "excerpt"),
     sentence |-> decompositionData.sentence, claims |-> decompositionData.propositionsWithContext,
     elementExtraction |-> JsString(ErrorMarker)]

\* elementCoverageEvaluatorV2: the slot is passed on without a call
extractionFailed(elementData) == IsJsString(elementData.elementExtraction)

\* variant: the skipped slot keeps only the marker
CoverageSkippedBare(elementData) ==
    [coverageEvaluation |->
        JsString("SKIPPED: Element extraction failed - "
                 \o elementData.elementExtraction.string)]

CoverageSkipped(elementData) ==
    Spread(elementData, "coverageEvaluation",
           JsString("SKIPPED: Element extraction failed - "
                    \o elementData.elementExtraction.string))

CoverageSuccess(elementData, llmResponse) ==
    [query |-> Get(elementData, "query"), excerpt |-> Get(elementData, "excerpt"),
     sentence |-> elementData.sentence, elementExtraction |-> elementData.elementExtraction,
     claims |-> elementData.claims, coverageEvaluation |-> llmResponse]

CoverageError(elementData) ==
    [query |-> Get(elementData, "query"), excerpt |-> Get(elementData, "excerpt"),
     sentence |-> elementData.sentence, elementExtraction |-> elementData.elementExtraction,
     claims |-> elementData.claims, coverageEvaluation |-> JsString(ErrorMarker)]

\* baselineCoverageEvaluator: the record stored for one claim item
BaselineCoverageSuccess(elementData, llmResponse) ==
    [query |-> elementData.query, excerpt |-> elementData.excerpt,
     sentence |-> elementData.sentence, claims |-> elementData.claims,
     elementExtraction |-> elementData.elementExtraction, coverageEvaluation |-> llmResponse,
     filename |-> elementData.filename, sentenceIndex |-> elementData.sentenceIndex]

BaselineCoverageError(elementData) ==
    [query |-> elementData.query, excerpt |-> elementData.excerpt,
     sentence |-> elementData.sentence, claims |-> elementData.claims,
     elementExtraction |-> elementData.elementExtraction,
     coverageEvaluation |-> JsString(ErrorMarker),
     filename |-> elementData.filename, sentenceIndex |-> elementData.sentenceIndex]

\* ------------------------------------------------------------------------
\* State
\* ------------------------------------------------------------------------
VARIABLES
    run,                     \* the entry point that is executing
    pc,                      \* position in the entry point's statement list
    outcome,                 \* "running", "resolved" or "rejected"
    files,                   \* the JSON artifacts on disk
    stage,                   \* the stage function that is executing, or "none"
    data,                    \* its parsed input
    finalGroupedOutput,
    currentDocumentOutputs,
    docIndex,
    sentenceIndex,
    claimIndex,
    claimEvaluations,
    inflight,                \* the generateObject call awaited, if any
    calls,                   \* every generateObject call issued so far
    excerptArgs,             \* arguments of a direct createExcerpt call
    excerptOut,              \* its results
    baseline,                \* the baselineCoverageEvaluator call of the baseline module
    process                  \* "alive" or "exited"

loopVars == <<data, finalGroupedOutput, currentDocumentOutputs, docIndex, sentenceIndex,
              claimIndex, claimEvaluations>>

excerptVars == <<excerptArgs, excerptOut>>

moduleVars == <<baseline, process>>

vars ==
    <<run, pc, outcome, files, stage, loopVars, inflight, calls, excerptVars, moduleVars>>

Selection == "claimifySelection"
Disambiguation == "claimifyDisambiguiation"
Decomposition == "claimifyDecomposition"
Entailment == "entailmentEvaluator"
ElementExtraction == "elementExtractorV2"
Coverage == "elementCoverageEvaluatorV2"
BaselineEntailment == "baselineEntailmentEvaluator"

Stages == {Selection, Disambiguation, Decomposition, Entailment, ElementExtraction,
           Coverage, BaselineEntailment}

\* the statements of each entry point, in order
Program(r) ==
    CASE r = "main" ->
            << "createContext", Selection, "filterVerifiableInformation",
               "unsafe_createContext", Disambiguation, Decomposition >>
      [] r = "evaluate" -> << Coverage >>
      [] r = "createExcerpt" -> << "createExcerpt", "baselineCreateExcerpt" >>
      [] OTHER -> << r >>

\* the entry points that run stages of the pipeline
Runs == {"main", "evaluate", Entailment, ElementExtraction, BaselineEntailment}

\* the files each stage is called with
StageInput(st) ==
    CASE st = Selection -> SelectionInputFile
      [] st = Disambiguation -> DisambiguationInputFile
      [] st = Decomposition -> DisambiguationOutputFile
      [] st = Entailment -> DecompositionOutputFile
      [] st = ElementExtraction -> DecompositionOutputFile
      [] st = Coverage -> ExtractedElementsFile
      [] st = BaselineEntailment -> BaselineOutputFile

\* variant: claimifyDecomposition writes over the file it reads
StageOutputInPlace(st) ==
    CASE st = Selection -> SelectionOutputFile
      [] st = Disambiguation -> DisambiguationOutputFile
      [] st = Decomposition -> DisambiguationOutputFile
      [] st = Entailment -> EntailmentOutputFile
      [] st = ElementExtraction -> ExtractedElementsFile
      [] st = Coverage -> CoverageOutputFile
      [] st = BaselineEntailment -> BaselineEntailmentFile

StageOutput(st) ==
    CASE st = Selection -> SelectionOutputFile
      [] st = Disambiguation -> DisambiguationOutputFile
      [] st = Decomposition -> DecompositionOutputFile
      [] st = Entailment -> EntailmentOutputFile
      [] st = ElementExtraction -> ExtractedElementsFile
      [] st = Coverage -> CoverageOutputFile
      [] st = BaselineEntailment -> BaselineEntailmentFile

\* the files a statement of main() is called to read, and the one it is called
\* to write
StepReads(step) ==
    CASE step = "createContext" -> {SourceFile}
      [] step = "filterVerifiableInformation" -> {SelectionOutputFile}
      [] step = "unsafe_createContext" -> {PrunedFile, SourceFile}
      [] OTHER -> {StageInput(step)}

StepWrites(step) ==
    CASE step = "createContext" -> SelectionInputFile
      [] step = "filterVerifiableInformation" -> PrunedFile
      [] step = "unsafe_createContext" -> DisambiguationInputFile
      [] OTHER -> StageOutput(step)

CurrentStep ==
    IF outcome = "running" /\ pc <= Len(Program(run)) THEN Program(run)[pc] ELSE "none"

\* the statement returned: the entry point goes on, or resolves after the last
Proceed ==
    /\ pc' = pc + 1
    /\ outcome' = IF pc + 1 > Len(Program(run)) THEN "resolved" ELSE "running"

\* the statement threw: the entry point's promise rejects
Reject ==
    /\ pc' = pc
    /\ outcome' = "rejected"

\* ------------------------------------------------------------------------
\* Input artifacts of the evaluation entry points
\* ------------------------------------------------------------------------
SeqsUpTo(V, n) == UNION {[1..k -> V] : k \in 0..n}

RECURSIVE TotalLen(_)
TotalLen(a) == IF Len(a) = 0 THEN 0 ELSE Len(a[1]) + TotalLen(Tail(a))

Artifacts(V) ==
    {a \in UNION {[1..n -> SeqsUpTo(V, MaxSents)] : n \in 0..MaxDocs} :
        TotalLen(a) <= MaxTotal}

SampleDisambiguated ==
    [query |-> QueryText(0), excerpt |-> SentenceText(0, 0), canBeDisambiguated |-> TRUE,
     decontextualizedSentence |-> "d:" \o SentenceText(0, 0)]

\* what claimifyDecomposition can leave in a slot
DecompositionSlots ==
    {EmptyObject, DecompositionError(SampleDisambiguated)}
    \cup {DecompositionSuccess(SampleDisambiguated, o) :
            o \in DecompositionLlmOutputs(SampleDisambiguated.decontextualizedSentence)}

SampleDecomposed ==
    DecompositionSuccess(SampleDisambiguated,
        [sentence |-> SampleDisambiguated.decontextualizedSentence,
         referentialTermsAnalysis |-> "terms",
         maxClarifiedSentence |-> "m:" \o SampleDisambiguated.decontextualizedSentence,
         propositionRange |-> "range",
         specificVerifiablePropositions |->
            Propositions("p", SampleDisambiguated.decontextualizedSentence, 1),
         propositionsWithContext |->
            Propositions("c", SampleDisambiguated.decontextualizedSentence, 1)])

\* what elementExtractorV2 can leave in a slot
ExtractedSlots ==
    {EmptyObject, ElementExtractionError(SampleDecomposed)}
    \cup {ElementExtractionSuccess(SampleDecomposed, o) :
            o \in ElementExtractionLlmOutputs(SampleDecomposed.sentence)}

\* what baselineClaimExtractor leaves in a document's claim list
BaselineClaims ==
    {[claim |-> "claim" \o ToString(j), sentence |-> SentenceText(0, 0),
      excerpt |-> SentenceText(0, 0), query |-> QueryText(0), filename |-> "f0",
      sentenceIndex |-> 0] : j \in 1..2}

\* what baselineElementExtractor can leave in a slot
BaselineExtractedSlots ==
    {EmptyObject}
    \cup {Spread(Spread(s, "filename", "f0"), "sentenceIndex", 0) :
            s \in ExtractedSlots \ {EmptyObject}}

\* ------------------------------------------------------------------------
\* Initial states: one per entry point and input
\* ------------------------------------------------------------------------
\* the baseline module is not loaded: baselineCoverageEvaluator is not called
NotCalled ==
    [outcome |-> "notCalled", data |-> << >>, finalGroupedOutput |-> << >>,
     currentDocumentOutputs |-> << >>, docIndex |-> 0, claimIndex |-> 0]

NoExcerptArgs == [allSentences |-> << >>, targetIndex |-> 0, p |-> 0, f |-> 0]

NoExcerptOut == [deterministic |-> << >>, baseline |-> << >>]

ExcerptInputs ==
    {[allSentences |-> [i \in 1..n |-> "x" \o ToString(i - 1)], targetIndex |-> t,
      p |-> p, f |-> f] :
        n \in 1..MaxExcerptLen, t \in 0..(MaxExcerptLen - 1),
        p \in 0..MaxWindow, f \in 0..MaxWindow}

\* the file an entry point reads first
FirstInput(r) == IF r = "main" THEN SourceFile ELSE StageInput(Program(r)[1])

\* what that file may hold when the entry point starts
InputContents(r) ==
    {Absent, NotAnArray}
    \cup CASE r = "main" -> {Written(DocumentList(sh)) : sh \in Shapes}
           [] r \in {Entailment, ElementExtraction} ->
                {Written(a) : a \in Artifacts(DecompositionSlots)}
           [] r = "evaluate" -> {Written(a) : a \in Artifacts(ExtractedSlots)}
           [] r = BaselineEntailment -> {Written(a) : a \in Artifacts(BaselineClaims)}

InitialFiles(r) ==
    IF r \in Runs
    THEN {[NoFiles EXCEPT ![FirstInput(r)] = c] : c \in InputContents(r)}
    ELSE {NoFiles}

\* the state every entry point starts in
Fresh ==
    /\ pc = 1
    /\ outcome = "running"
    /\ stage = "none"
    /\ data = << >>
    /\ finalGroupedOutput = << >>
    /\ currentDocumentOutputs = << >>
    /\ docIndex = 0
    /\ sentenceIndex = 0
    /\ claimIndex = 0
    /\ claimEvaluations = << >>
    /\ inflight = << >>
    /\ calls = << >>
    /\ excerptOut = NoExcerptOut
    /\ baseline = NotCalled
    /\ process = "alive"

Init ==
    /\ run \in Runs
    /\ files \in InitialFiles(run)
    /\ excerptArgs = NoExcerptArgs
    /\ Fresh

InitExcerpt ==
    /\ run = "createExcerpt"
    /\ files = NoFiles
    /\ excerptArgs \in {a \in ExcerptInputs : a.targetIndex < Len(a.allSentences)}
    /\ Fresh

\* ------------------------------------------------------------------------
\* Direct calls of the two excerpt builders
\* ------------------------------------------------------------------------
ApplyCreateExcerpt ==
    /\ CurrentStep = "createExcerpt"
    /\ excerptOut' =
        [excerptOut EXCEPT !.deterministic =
            << [parts |-> contextParts(excerptArgs.allSentences, excerptArgs.targetIndex,
                                       excerptArgs.p, excerptArgs.f),
                text |-> createExcerpt(excerptArgs.allSentences, excerptArgs.targetIndex,
                                       excerptArgs.p, excerptArgs.f)] >>]
    /\ Proceed
    /\ UNCHANGED <<run, files, stage, loopVars, inflight, calls, excerptArgs, moduleVars>>

ApplyBaselineCreateExcerpt ==
    /\ CurrentStep = "baselineCreateExcerpt"
    /\ excerptOut' =
        [excerptOut EXCEPT !.baseline =
            << [parts |-> baselineWindow(excerptArgs.allSentences, excerptArgs.targetIndex,
                                        excerptArgs.p, excerptArgs.f),
                text |-> baselineCreateExcerpt(excerptArgs.allSentences,
                                               excerptArgs.targetIndex,
                                               excerptArgs.p, excerptArgs.f)] >>]
    /\ Proceed
    /\ UNCHANGED <<run, files, stage, loopVars, inflight, calls, excerptArgs, moduleVars>>

\* ------------------------------------------------------------------------
\* The deterministic steps of main()
\* ------------------------------------------------------------------------
\* createContext catches every error and returns: main() always goes on
CreateContext ==
    /\ CurrentStep = "createContext"
    /\ files' =
        IF IsArray(files[SourceFile])
        THEN [files EXCEPT ![SelectionInputFile] =
                Written(createContextData(files[SourceFile].data, ContextP, ContextF))]
        ELSE files
    /\ Proceed
    /\ UNCHANGED <<run, stage, loopVars, inflight, calls, excerptVars, moduleVars>>

\* filterVerifiableInformation re-throws: main() rejects when the input is
\* missing or has no map()
FilterVerifiableInformation ==
    /\ CurrentStep = "filterVerifiableInformation"
    /\ IF IsArray(files[SelectionOutputFile])
       THEN /\ files' = [files EXCEPT ![PrunedFile] =
                            Written(filteredData(files[SelectionOutputFile].data))]
            /\ Proceed
       ELSE /\ files' = files
            /\ Reject
    /\ UNCHANGED <<run, stage, loopVars, inflight, calls, excerptVars, moduleVars>>

\* unsafe_createContext catches every error and returns
UnsafeCreateContext ==
    /\ CurrentStep = "unsafe_createContext"
    /\ files' =
        IF IsArray(files[PrunedFile]) /\ IsArray(files[SourceFile])
        THEN [files EXCEPT ![DisambiguationInputFile] =
                Written(dataWithExcerpts(files[PrunedFile].data, files[SourceFile].data,
                                         DisambiguationP, DisambiguationF))]
        ELSE files
    /\ Proceed
    /\ UNCHANGED <<run, stage, loopVars, inflight, calls, excerptVars, moduleVars>>

\* ------------------------------------------------------------------------
\* The generative stages.  Every stage function has the same skeleton: read
\* and parse the input, loop over documents and over the slots of a document,
\* await one generateObject call per slot that needs one, write the grouped
\* output after the last document.
\* ------------------------------------------------------------------------
\* the Selection loop skips an item (continue) without pushing anything
invalidItem(item) ==
    IF ~HasTokens(item) \/ "excerpts" \notin DOMAIN item
    THEN TRUE
    ELSE Len(item.tokenized_response) # Len(item.excerpts)

\* the array the inner loop of a stage runs over
Slots(st, doc) == IF st = Selection THEN doc.tokenized_response ELSE doc

\* the stages whose inner loop starts with the empty-object check
ChecksEmpty(st) == st \notin {Selection, BaselineEntailment}

CurrentDoc == At(data, docIndex)

CurrentSlot == At(Slots(stage, CurrentDoc), sentenceIndex)

\* variant: the loop goes on without awaiting the call it issued
AtSlotNoAwait ==
    /\ stage # "none"
    /\ docIndex < Len(data)
    /\ (stage = Selection => ~invalidItem(CurrentDoc))
    /\ sentenceIndex < Len(Slots(stage, CurrentDoc))

\* the loop is at a slot of a document it processes
AtSlot ==
    /\ stage # "none"
    /\ inflight = << >>
    /\ docIndex < Len(data)
    /\ (stage = Selection => ~invalidItem(CurrentDoc))
    /\ sentenceIndex < Len(Slots(stage, CurrentDoc))

\* the slot is pushed on without a generation call
PassedOn(st, slot) ==
    IF ChecksEmpty(st) /\ IsEmptyObject(slot) THEN TRUE
    ELSE IF st = Decomposition THEN cannotBeDisambiguated(slot)
    ELSE IF st = Coverage THEN extractionFailed(slot)
    ELSE FALSE

PassedOnRecord(st, slot) ==
    IF st = Coverage /\ ~IsEmptyObject(slot) THEN CoverageSkipped(slot) ELSE EmptyObject

\* the arguments of the prompt of the call for a slot
PromptArgs(st, doc, slot, i, c) ==
    CASE st = Selection ->
            [query |-> Get(doc, "query"), excerpt |-> At(doc.excerpts, i), sentence |-> slot,
             claim |-> ""]
      [] st = Disambiguation ->
            [query |-> Get(slot, "query"), excerpt |-> Get(slot, "excerpt"),
             sentence |-> sentenceForPrompt(slot), claim |-> ""]
      [] st = Decomposition ->
            [query |-> Get(slot, "query"), excerpt |-> Get(slot, "excerpt"),
             sentence |-> slot.decontextualizedSentence, claim |-> ""]
      [] st = Entailment ->
            [query |-> Get(slot, "query"), excerpt |-> Get(slot, "excerpt"),
             sentence |-> slot.sentence, claim |-> At(slot.propositionsWithContext, c)]
      [] st = BaselineEntailment ->
            [query |-> Get(slot, "query"), excerpt |-> Get(slot, "excerpt"),
             sentence |-> slot.sentence, claim |-> slot.claim]
      [] OTHER ->
            [query |-> Get(slot, "query"), excerpt |-> Get(slot, "excerpt"),
             sentence |-> slot.sentence, claim |-> ""]

\* one generateObject call: where the loop was, what the prompt was built from,
\* and how the call ended ("pending" while it is awaited)
Call(st, d, i, c, args) ==
    [stage |-> st, docIndex |-> d, sentenceIndex |-> i, claimIndex |-> c, prompt |-> args,
     outcome |-> "pending"]

\* the call log once the awaited call has ended
Ended(log, how) == [log EXCEPT ![Len(log)].outcome = how]

\* the objects the call for a slot may resolve to
LlmOutputs(st, slot, args) ==
    CASE st = Selection -> SelectionLlmOutputs(args.sentence)
      [] st = Disambiguation -> DisambiguationLlmOutputs(args.sentence)
      [] st = Decomposition -> DecompositionLlmOutputs(args.sentence)
      [] st = Entailment -> EntailmentLlmOutputs(args.sentence, args.claim)
      [] st = BaselineEntailment -> EntailmentLlmOutputs(args.sentence, args.claim)
      [] st = ElementExtraction -> ElementExtractionLlmOutputs(args.sentence)
      [] st = Coverage -> CoverageLlmOutputs(slot.elementExtraction.elements)

\* the output array of the document after the call for a slot resolved
AfterSuccess(st, outputs, slot, llmOutput) ==
    CASE st = Selection -> Append(outputs, llmOutput)
      [] st = Disambiguation -> Append(outputs, DisambiguationSuccess(slot, llmOutput))
      [] st = Decomposition -> Append(outputs, DecompositionSuccess(slot, llmOutput))
      [] st = BaselineEntailment -> Append(outputs, BaselineEntailmentSuccess(slot, llmOutput))
      [] st = ElementExtraction -> Append(outputs, ElementExtractionSuccess(slot, llmOutput))
      [] st = Coverage -> Append(outputs, CoverageSuccess(slot, llmOutput))

\* variant: no stage stores a record for a failed call
AfterFailureDropping(st, outputs, doc, slot, i) == outputs

\* the output array of the document after the call for a slot failed
AfterFailure(st, outputs, doc, slot, i) ==
    CASE st = Selection ->
            SelectionAfterError(outputs, SelectionErrorOutput(Get(doc, "filename"), i, slot))
      [] st = Disambiguation -> Append(outputs, DisambiguationError(slot))
      [] st = Decomposition -> Append(outputs, DecompositionError(slot))
      [] st = BaselineEntailment -> Append(outputs, BaselineEntailmentError(slot))
      [] st = ElementExtraction -> Append(outputs, ElementExtractionError(slot))
      [] st = Coverage -> Append(outputs, CoverageError(slot))

\* the function starts: readFileSync throws on a missing file (re-thrown by
\* the catch block), an input that is not an array makes the function return,
\* otherwise the loop starts with empty outputs
StageStart(st) ==
    /\ CurrentStep = st
    /\ stage = "none"
    /\ IF IsArray(files[StageInput(st)])
       THEN /\ stage' = st
            /\ data' = files[StageInput(st)].data
            /\ finalGroupedOutput' = << >>
            /\ currentDocumentOutputs' = << >>
            /\ docIndex' = 0
            /\ sentenceIndex' = 0
            /\ claimIndex' = 0
            /\ claimEvaluations' = << >>
            /\ UNCHANGED <<pc, outcome>>
       ELSE /\ IF files[StageInput(st)].exists THEN Proceed ELSE Reject
            /\ UNCHANGED <<stage, loopVars>>
    /\ UNCHANGED <<run, files, inflight, calls, excerptVars, moduleVars>>

\* claimifySelection: `continue` on an item without the two arrays, or whose
\* arrays differ in length
SelectionSkipItem ==
    /\ stage = Selection
    /\ inflight = << >>
    /\ docIndex < Len(data)
    /\ invalidItem(CurrentDoc)
    /\ docIndex' = docIndex + 1
    /\ UNCHANGED <<run, pc, outcome, files, stage, data, finalGroupedOutput,
                   currentDocumentOutputs, sentenceIndex, claimIndex, claimEvaluations,
                   inflight, calls, excerptVars, moduleVars>>

\* the slot is pushed on without a call (`continue`)
PassOn ==
    /\ AtSlot
    /\ PassedOn(stage, CurrentSlot)
    /\ currentDocumentOutputs' =
            Append(currentDocumentOutputs, PassedOnRecord(stage, CurrentSlot))
    /\ sentenceIndex' = sentenceIndex + 1
    /\ UNCHANGED <<run, pc, outcome, files, stage, data, finalGroupedOutput, docIndex,
                   claimIndex, claimEvaluations, inflight, calls, excerptVars, moduleVars>>

\* the loop reaches `await generateObject(...)`
IssueCall ==
    /\ AtSlot
    /\ ~PassedOn(stage, CurrentSlot)
    /\ stage = Entailment => claimIndex < Len(CurrentSlot.propositionsWithContext)
    /\ LET call == Call(stage, docIndex, sentenceIndex, claimIndex,
                        PromptArgs(stage, CurrentDoc, CurrentSlot, sentenceIndex, claimIndex))
       IN  /\ inflight' = << call >>
           /\ calls' = Append(calls, call)
    /\ UNCHANGED <<run, pc, outcome, files, stage, loopVars, excerptVars, moduleVars>>

\* the awaited call resolves with a schema-valid object
CallResolves ==
    /\ stage # "none"
    /\ inflight # << >>
    /\ \E llmOutput \in LlmOutputs(stage, CurrentSlot, inflight[1].prompt) :
        IF stage = Entailment
        THEN /\ claimEvaluations' =
                    Append(claimEvaluations, EntailmentSuccess(inflight[1].prompt.claim, llmOutput))
             /\ claimIndex' = claimIndex + 1
             /\ UNCHANGED <<currentDocumentOutputs, sentenceIndex>>
        ELSE /\ currentDocumentOutputs' =
                    AfterSuccess(stage, currentDocumentOutputs, CurrentSlot, llmOutput)
             /\ sentenceIndex' = sentenceIndex + 1
             /\ UNCHANGED <<claimEvaluations, claimIndex>>
    /\ inflight' = << >>
    /\ calls' = Ended(calls, "success")
    /\ UNCHANGED <<run, pc, outcome, files, stage, data, finalGroupedOutput, docIndex,
                   excerptVars, moduleVars>>

\* variant: a failed call ends the stage function, which rejects
CallFailsAborts ==
    /\ stage # "none"
    /\ inflight # << >>
    /\ inflight' = << >>
    /\ calls' = Ended(calls, "failure")
    /\ stage' = "none"
    /\ Reject
    /\ UNCHANGED <<run, files, loopVars, excerptVars, moduleVars>>

\* the awaited call fails (provider error, schema violation, timeout): the
\* inner catch block runs and the loop goes on
CallFails ==
    /\ stage # "none"
    /\ inflight # << >>
    /\ IF stage = Entailment
       THEN /\ claimEvaluations' =
                    Append(claimEvaluations, EntailmentError(inflight[1].prompt.claim))
            /\ claimIndex' = claimIndex + 1
            /\ UNCHANGED <<currentDocumentOutputs, sentenceIndex>>
       ELSE /\ currentDocumentOutputs' =
                    AfterFailure(stage, currentDocumentOutputs, CurrentDoc, CurrentSlot,
                                 sentenceIndex)
            /\ sentenceIndex' = sentenceIndex + 1
            /\ UNCHANGED <<claimEvaluations, claimIndex>>
    /\ inflight' = << >>
    /\ calls' = Ended(calls, "failure")
    /\ UNCHANGED <<run, pc, outcome, files, stage, data, finalGroupedOutput, docIndex,
                   excerptVars, moduleVars>>

\* entailmentEvaluator: the claim loop of a sentence ends
EntailmentEndSentence ==
    /\ AtSlot
    /\ stage = Entailment
    /\ ~PassedOn(stage, CurrentSlot)
    /\ claimIndex = Len(CurrentSlot.propositionsWithContext)
    /\ currentDocumentOutputs' =
            Append(currentDocumentOutputs, EntailmentSentence(claimEvaluations))
    /\ sentenceIndex' = sentenceIndex + 1
    /\ claimIndex' = 0
    /\ claimEvaluations' = << >>
    /\ UNCHANGED <<run, pc, outcome, files, stage, data, finalGroupedOutput, docIndex,
                   inflight, calls, excerptVars, moduleVars>>

\* the inner loop of a document ends: its outputs are pushed
EndDocument ==
    /\ stage # "none"
    /\ inflight = << >>
    /\ docIndex < Len(data)
    /\ (stage = Selection => ~invalidItem(CurrentDoc))
    /\ sentenceIndex = Len(Slots(stage, CurrentDoc))
    /\ finalGroupedOutput' = Append(finalGroupedOutput, currentDocumentOutputs)
    /\ currentDocumentOutputs' = << >>
    /\ docIndex' = docIndex + 1
    /\ sentenceIndex' = 0
    /\ UNCHANGED <<run, pc, outcome, files, stage, data, claimIndex, claimEvaluations,
                   inflight, calls, excerptVars, moduleVars>>

\* the outer loop ends: writeFileSync(JSON.stringify(finalGroupedOutput))
WriteOutput ==
    /\ stage # "none"
    /\ inflight = << >>
    /\ docIndex = Len(data)
    /\ files' = [files EXCEPT ![StageOutput(stage)] = Written(JsonGrouped(finalGroupedOutput))]
    /\ stage' = "none"
    /\ Proceed
    /\ UNCHANGED <<run, loopVars, inflight, calls, excerptVars, moduleVars>>

Next ==
    \/ CreateContext
    \/ FilterVerifiableInformation
    \/ UnsafeCreateContext
    \/ \E st \in Stages : StageStart(st)
    \/ SelectionSkipItem
    \/ PassOn
    \/ IssueCall
    \/ CallResolves
    \/ CallFails
    \/ EntailmentEndSentence
    \/ EndDocument
    \/ WriteOutput

Spec == Init /\ [][Next]_vars

NextExcerpt ==
    \/ ApplyCreateExcerpt
    \/ ApplyBaselineCreateExcerpt

SpecExcerpt == InitExcerpt /\ [][NextExcerpt]_vars

\* ------------------------------------------------------------------------
\* baselineClaimExtractor: one generateObject call per item of the input, and
\* for every claim returned the sentence of the item sharing most words with it
\* ------------------------------------------------------------------------
BaselineExtraction == "baselineClaimExtractor"

\* the claims the call for an item may return
ClaimTexts(item) ==
    {"nothing matches"}
    \cup (IF HasTokens(item)
          THEN {item.tokenized_response[i] \o " holds" : i \in DOMAIN item.tokenized_response}
          ELSE {})

ExtractedClaimLists(item) == SeqsUpTo(ClaimTexts(item), MaxClaims)

\* text.toLowerCase().split(/\s+/), for the texts above (all in lower case) and
\* the sentences of the documents
Words(text) ==
    LET lists == {<<"nothing", "matches">>}
                 \cup {<<SentenceText(d, i)>> : d \in 0..MaxDocs, i \in 0..MaxTotal}
                 \cup {<<SentenceText(d, i), "holds">> : d \in 0..MaxDocs, i \in 0..MaxTotal}
    IN  CHOOSE w \in lists : JsJoin(w, " ") = text

\* the index kept by the overlap loop: the first sentence with the largest
\* number of claim words found in it, 0 when no sentence shares a word.  None
\* of the words above contains another, so includes() is equality
bestSentenceIndex(claim, tokenized_response) ==
    LET claimWords == Words(claim)
        overlap(i) ==
            Cardinality({k \in DOMAIN claimWords :
                \E j \in DOMAIN Words(tokenized_response[i]) :
                    Words(tokenized_response[i])[j] = claimWords[k]})
        beats(i) ==
            /\ overlap(i) > 0
            /\ \A j \in DOMAIN tokenized_response :
                    IF j < i THEN overlap(j) < overlap(i) ELSE overlap(j) <= overlap(i)
    IN  IF \E i \in DOMAIN tokenized_response : beats(i)
        THEN (CHOOSE i \in DOMAIN tokenized_response : beats(i)) - 1
        ELSE 0

\* currentItemClaims after the claim loop; the loop throws at the first claim
\* of an item without tokenized_response, with nothing pushed
currentItemClaims(item, extractedClaims) ==
    IF ~HasTokens(item) THEN << >>
    ELSE [c \in DOMAIN extractedClaims |->
            LET best == bestSentenceIndex(extractedClaims[c], item.tokenized_response)
            IN  [claim |-> extractedClaims[c],
                 sentence |-> At(item.tokenized_response, best),
                 excerpt |-> baselineCreateExcerpt(item.tokenized_response, best, 5, 5),
                 query |-> item.query, filename |-> item.filename,
                 sentenceIndex |-> best]]

\* variant: nothing is stored for an item whose call failed
ExtractionAfterFailureDropping(outputs) == outputs

\* the catch block pushes nothing; the empty currentItemClaims is pushed after it
ExtractionAfterFailure(outputs) == Append(outputs, << >>)

ExtractionStart ==
    /\ CurrentStep = BaselineExtraction
    /\ stage = "none"
    /\ IF ~files[SourceFile].exists
       THEN /\ Reject
            /\ UNCHANGED <<stage, data>>
       ELSE IF ~files[SourceFile].array
       THEN /\ Proceed
            /\ UNCHANGED <<stage, data>>
       ELSE /\ stage' = BaselineExtraction
            /\ data' = files[SourceFile].data
            /\ UNCHANGED <<pc, outcome>>
    /\ UNCHANGED <<run, files, finalGroupedOutput, currentDocumentOutputs, docIndex,
                   sentenceIndex, claimIndex, claimEvaluations, inflight, calls,
                   excerptVars, moduleVars>>

ExtractionIssueCall ==
    /\ stage = BaselineExtraction
    /\ inflight = << >>
    /\ docIndex < Len(data)
    /\ LET item == At(data, docIndex)
           call == Call(BaselineExtraction, docIndex, 0, 0,
                        [query |-> item.query, response |-> item.response])
       IN  /\ inflight' = << call >>
           /\ calls' = Append(calls, call)
    /\ UNCHANGED <<run, pc, outcome, files, stage, loopVars, excerptVars, moduleVars>>

ExtractionCallResolves ==
    /\ stage = BaselineExtraction
    /\ inflight # << >>
    /\ \E extractedClaims \in ExtractedClaimLists(At(data, docIndex)) :
            finalGroupedOutput' =
                Append(finalGroupedOutput,
                       currentItemClaims(At(data, docIndex), extractedClaims))
    /\ docIndex' = docIndex + 1
    /\ inflight' = << >>
    /\ calls' = Ended(calls, "success")
    /\ UNCHANGED <<run, pc, outcome, files, stage, data, currentDocumentOutputs,
                   sentenceIndex, claimIndex, claimEvaluations, excerptVars, moduleVars>>

ExtractionCallFails ==
    /\ stage = BaselineExtraction
    /\ inflight # << >>
    /\ finalGroupedOutput' = ExtractionAfterFailure(finalGroupedOutput)
    /\ docIndex' = docIndex + 1
    /\ inflight' = << >>
    /\ calls' = Ended(calls, "failure")
    /\ UNCHANGED <<run, pc, outcome, files, stage, data, currentDocumentOutputs,
                   sentenceIndex, claimIndex, claimEvaluations, excerptVars, moduleVars>>

ExtractionWrite ==
    /\ stage = BaselineExtraction
    /\ inflight = << >>
    /\ docIndex = Len(data)
    /\ files' = [files EXCEPT ![BaselineOutputFile] = Written(JsonGrouped(finalGroupedOutput))]
    /\ stage' = "none"
    /\ Proceed
    /\ UNCHANGED <<run, loopVars, inflight, calls, excerptVars, moduleVars>>

InitExtraction ==
    /\ run = BaselineExtraction
    /\ files \in {[NoFiles EXCEPT ![SourceFile] = c] : c \in InputContents("main")}
    /\ excerptArgs = NoExcerptArgs
    /\ Fresh

NextExtraction ==
    \/ ExtractionStart
    \/ ExtractionIssueCall
    \/ ExtractionCallResolves
    \/ ExtractionCallFails
    \/ ExtractionWrite

SpecExtraction == InitExtraction /\ [][NextExtraction]_vars

\* ------------------------------------------------------------------------
\* Loading the baseline module: its import runs the pipeline module, whose
\* last statement calls evaluate(); then the baseline module's last statement
\* calls baselineCoverageEvaluator.  Neither promise has a handler.  A
\* function runs without interruption from one await to the next.
\* ------------------------------------------------------------------------
\* evaluate() is suspended at an await or has ended
AtRest == inflight # << >> \/ outcome # "running"

BaselinePush(b, record) ==
    [b EXCEPT !.currentDocumentOutputs = Append(@, record), !.claimIndex = @ + 1]

\* the two loops of baselineCoverageEvaluator, from the position in b to the
\* next generateObject call or to the end of the data
RECURSIVE BaselineCoverageLoop(_)
BaselineCoverageLoop(b) ==
    IF b.docIndex = Len(b.data) THEN [b EXCEPT !.outcome = "resolved"]
    ELSE LET documentClaims == At(b.data, b.docIndex)
         IN  IF b.claimIndex = Len(documentClaims)
             THEN BaselineCoverageLoop(
                    [b EXCEPT !.finalGroupedOutput = Append(@, b.currentDocumentOutputs),
                              !.currentDocumentOutputs = << >>,
                              !.docIndex = @ + 1,
                              !.claimIndex = 0])
             ELSE LET claimItem == At(documentClaims, b.claimIndex)
                  IN  IF IsEmptyObject(claimItem)
                      THEN BaselineCoverageLoop(BaselinePush(b, EmptyObject))
                      ELSE IF extractionFailed(claimItem)
                      THEN BaselineCoverageLoop(BaselinePush(b, CoverageSkipped(claimItem)))
                      ELSE [b EXCEPT !.outcome = "awaiting"]

\* the function goes on from b, and writes its output when the loops end
BaselineCoverageRuns(b) ==
    /\ baseline' = BaselineCoverageLoop(b)
    /\ files' =
        IF baseline'.outcome = "resolved"
        THEN [files EXCEPT ![BaselineCoverageOutputFile] =
                Written(JsonGrouped(baseline'.finalGroupedOutput))]
        ELSE files

\* the call of baselineCoverageEvaluator, made once the import has returned
BaselineCoverageStart ==
    /\ process = "alive"
    /\ baseline.outcome = "notCalled"
    /\ AtRest
    /\ IF ~files[BaselineCoverageInputFile].exists
       THEN /\ baseline' = [baseline EXCEPT !.outcome = "rejected"]
            /\ files' = files
       ELSE IF ~files[BaselineCoverageInputFile].array
       THEN /\ baseline' = [baseline EXCEPT !.outcome = "resolved"]
            /\ files' = files
       ELSE BaselineCoverageRuns(
                [baseline EXCEPT !.data = files[BaselineCoverageInputFile].data])
    /\ UNCHANGED <<run, pc, outcome, stage, loopVars, inflight, calls, excerptVars, process>>

\* the claim item baselineCoverageEvaluator awaits a call for
BaselineAwaited == At(At(baseline.data, baseline.docIndex), baseline.claimIndex)

BaselineCoverageCallResolves ==
    /\ process = "alive"
    /\ baseline.outcome = "awaiting"
    /\ AtRest
    /\ \E llmResponse \in CoverageLlmOutputs(BaselineAwaited.elementExtraction.elements) :
            BaselineCoverageRuns(
                BaselinePush(baseline, BaselineCoverageSuccess(BaselineAwaited, llmResponse)))
    /\ UNCHANGED <<run, pc, outcome, stage, loopVars, inflight, calls, excerptVars, process>>

BaselineCoverageCallFails ==
    /\ process = "alive"
    /\ baseline.outcome = "awaiting"
    /\ AtRest
    /\ BaselineCoverageRuns(BaselinePush(baseline, BaselineCoverageError(BaselineAwaited)))
    /\ UNCHANGED <<run, pc, outcome, stage, loopVars, inflight, calls, excerptVars, process>>

\* a rejected promise without a handler: the runtime may end the process
\* once the module has loaded, or only report the rejection
ProcessExits ==
    /\ process = "alive"
    /\ baseline.outcome # "notCalled"
    /\ AtRest
    /\ outcome = "rejected" \/ baseline.outcome = "rejected"
    /\ process' = "exited"
    /\ UNCHANGED <<run, pc, outcome, files, stage, loopVars, inflight, calls, excerptVars,
                   baseline>>

\* one document of up to MaxSents slots, or a missing or malformed file
ModuleLoadInputs(V) ==
    {Absent, NotAnArray} \cup {Written(<< slots >>) : slots \in SeqsUpTo(V, MaxSents)}

InitModuleLoad ==
    /\ run = "evaluate"
    /\ files \in
        {[NoFiles EXCEPT ![ExtractedElementsFile] = a, ![BaselineCoverageInputFile] = b] :
            a \in ModuleLoadInputs(ExtractedSlots),
            b \in ModuleLoadInputs(BaselineExtractedSlots)}
    /\ excerptArgs = NoExcerptArgs
    /\ Fresh

NextModuleLoad ==
    \/ process = "alive" /\ StageStart(Coverage)
    \/ process = "alive" /\ PassOn
    \/ process = "alive" /\ IssueCall
    \/ process = "alive" /\ EndDocument
    \/ process = "alive" /\ WriteOutput
    \/ process = "alive" /\ baseline.outcome # "notCalled" /\ CallResolves
    \/ process = "alive" /\ baseline.outcome # "notCalled" /\ CallFails
    \/ BaselineCoverageStart
    \/ BaselineCoverageCallResolves
    \/ BaselineCoverageCallFails
    \/ ProcessExits

SpecModuleLoad == InitModuleLoad /\ [][NextModuleLoad]_vars

\* the event loop runs every statement that can run, and every awaited
\* generation call eventually resolves or fails
SpecLive == Init /\ [][Next]_vars /\ WF_vars(Next)

TypeOK ==
    /\ run \in Runs \cup {"createExcerpt"}
    /\ outcome \in {"running", "resolved", "rejected"}
    /\ stage \in Stages \cup {"none"}
    /\ Len(inflight) <= 1

\* ------------------------------------------------------------------------
\* Properties
\* ------------------------------------------------------------------------
\* the file holds a JSON array
Exists(f) == IsArray(files[f])

Data(f) == files[f].data

Source == Data(SourceFile)

\* the grouped array a has a slot i in document d (0-based)
HasSlot(a, d, i) == IF d >= 0 /\ d < Len(a) THEN i >= 0 /\ i < Len(a[d + 1]) ELSE FALSE

SlotAt(a, d, i) == a[d + 1][i + 1]

\* the positions of a grouped array
Positions(a) == {<<d, i>> \in (0..(Len(a) - 1)) \X (0..MaxTotal) : HasSlot(a, d, i)}

PrunedAt(f, d, i) ==
    IF Exists(f) /\ HasSlot(Data(f), d, i) THEN IsEmptyObject(SlotAt(Data(f), d, i)) ELSE FALSE

CallsOf(st) == {calls[k] : k \in {j \in DOMAIN calls : calls[j].stage = st}}

CalledAt(st, d, i) == \E c \in CallsOf(st) : c.docIndex = d /\ c.sentenceIndex = i

\* the artifacts main() writes after the source documents, in pipeline order
MainArtifacts ==
    << SelectionOutputFile, PrunedFile, DisambiguationInputFile, DisambiguationOutputFile,
       DecompositionOutputFile >>

AllDocumentsTokenized == \A d \in DOMAIN Source : HasTokens(Source[d])

\* C1 (as claimed): every artifact the pipeline has written holds, for every
\* document, exactly as many slots as the document has sentences, whichever
\* generation calls failed.
C1_AlignmentEveryStage ==
    (run = "main" /\ AllDocumentsTokenized) =>
        \A n \in DOMAIN MainArtifacts :
            LET f == MainArtifacts[n]
            IN  Exists(f) =>
                    /\ Len(Data(f)) = Len(Source)
                    /\ \A d \in DOMAIN Source :
                            Len(Data(f)[d]) = Len(Source[d].tokenized_response)

\* the record a stage stores for a failed call
ErrorSentinel(st, slot) ==
    CASE st = Selection ->
            Get(slot, "sentenceWithOnlyVerifiableInformation") = ErrorMarker
      [] st = Disambiguation -> Get(slot, "incompleteNamesAnalysis") = ErrorMarker
      [] st = Decomposition -> Get(slot, "referentialTermsAnalysis") = ErrorMarker
      [] st = BaselineEntailment -> slot.entailmentEvaluation.contextDescription = ErrorMarker
      [] st = ElementExtraction -> IsJsString(slot.elementExtraction)
      [] st = Coverage ->
            IF IsJsString(slot.coverageEvaluation)
            THEN slot.coverageEvaluation.string = ErrorMarker
            ELSE FALSE
      [] st = Entailment -> FALSE

\* C2 (as claimed): in every stage, once its output is written, every slot a
\* call was issued for has an entry at its own index, and the entry is the
\* error sentinel exactly when the call failed.
C2_ErrorIsolation ==
    \A st \in Stages :
        Exists(StageOutput(st)) =>
            \A c \in CallsOf(st) :
                LET out == Data(StageOutput(st))
                IN  /\ HasSlot(out, c.docIndex, c.sentenceIndex)
                    /\ LET slot == SlotAt(out, c.docIndex, c.sentenceIndex)
                       IN  /\ ~IsEmptyObject(slot)
                           /\ IF st = Entailment
                              THEN /\ c.claimIndex < Len(slot.claimEvaluations)
                                   /\ IsJsString(At(slot.claimEvaluations,
                                                    c.claimIndex).entailmentEvaluation)
                                        <=> (c.outcome = "failure")
                              ELSE ErrorSentinel(st, slot) <=> (c.outcome = "failure")

\* the artifacts that precede the output of a stage, and that output
Upstream(st) ==
    CASE st = Disambiguation -> {PrunedFile, DisambiguationInputFile}
      [] st = Decomposition -> {PrunedFile, DisambiguationInputFile, DisambiguationOutputFile}
      [] st = Coverage ->
            {PrunedFile, DisambiguationInputFile, DisambiguationOutputFile,
             DecompositionOutputFile, ExtractedElementsFile}
      [] st \in {Entailment, ElementExtraction} ->
            {PrunedFile, DisambiguationInputFile, DisambiguationOutputFile,
             DecompositionOutputFile}
      [] OTHER -> {}

\* g is written by a later step than f
Later ==
    {<<MainArtifacts[jk[1]], MainArtifacts[jk[2]]>> :
        jk \in {x \in (DOMAIN MainArtifacts) \X (DOMAIN MainArtifacts) : x[1] < x[2]}}
    \cup UNION {{<<f, StageOutput(st)>> : f \in Upstream(st)} :
                    st \in {Entailment, ElementExtraction, Coverage}}

\* C3: a slot that is the pruned marker in the output of a step is the pruned
\* marker in the output of every later step, and no later stage issues a
\* generation call for it.
C3_PruningMonotonic ==
    /\ \A pair \in Later :
        (Exists(pair[1]) /\ Exists(pair[2])) =>
            \A pos \in Positions(Data(pair[1])) :
                PrunedAt(pair[1], pos[1], pos[2]) => PrunedAt(pair[2], pos[1], pos[2])
    /\ \A k \in DOMAIN calls :
        \A f \in Upstream(calls[k].stage) :
            ~PrunedAt(f, calls[k].docIndex, calls[k].sentenceIndex)

\* C3 witness: the filter pruned a slot and every later step of main() ran,
\* with a generation call issued for another slot
C3_Witness ==
    /\ run = "main"
    /\ Exists(DecompositionOutputFile)
    /\ \E pos \in Positions(Data(PrunedFile)) : PrunedAt(PrunedFile, pos[1], pos[2])
    /\ CallsOf(Decomposition) # {}

\* C4 (as claimed): once Selection has written its output, the slot of every
\* sentence whose generation call failed holds a record whose verdict is
\* "Does NOT contain a specific and verifiable proposition".
C4_SelectionFailClosed ==
    (run = "main" /\ AllDocumentsTokenized /\ Exists(SelectionOutputFile)) =>
        \A c \in CallsOf(Selection) :
            c.outcome = "failure" =>
                LET out == Data(SelectionOutputFile)
                IN  IF HasSlot(out, c.docIndex, c.sentenceIndex)
                    THEN LET slot == SlotAt(out, c.docIndex, c.sentenceIndex)
                         IN  /\ Get(slot, "sentence") = c.prompt.sentence
                             /\ Get(slot, "finalSubmission") = DoesNotContain
                    ELSE FALSE

FailedCalls(st) == {c \in CallsOf(st) : c.outcome = "failure"}

\* C5: a populated slot whose Disambiguation call failed is stored as a
\* populated record with canBeDisambiguated = false; Decomposition never issues
\* a generation call for it and writes the pruned marker at its index.
C5_DisambiguationFailClosed ==
    \A c \in FailedCalls(Disambiguation) :
        /\ ~CalledAt(Decomposition, c.docIndex, c.sentenceIndex)
        /\ Exists(DisambiguationOutputFile) =>
            /\ HasSlot(Data(DisambiguationOutputFile), c.docIndex, c.sentenceIndex)
            /\ LET slot == SlotAt(Data(DisambiguationOutputFile), c.docIndex, c.sentenceIndex)
               IN  /\ ~IsEmptyObject(slot)
                   /\ Get(slot, "canBeDisambiguated") = FALSE
        /\ Exists(DecompositionOutputFile) =>
            PrunedAt(DecompositionOutputFile, c.docIndex, c.sentenceIndex)

\* C5 witness: a Disambiguation call failed, another resolved with
\* canBeDisambiguated = true, and Decomposition has written its output
C5_Witness ==
    /\ FailedCalls(Disambiguation) # {}
    /\ CallsOf(Decomposition) # {}
    /\ Exists(DecompositionOutputFile)

\* the evaluation an entailment evaluator stored for the claim of a call
StoredEvaluation(st, c) ==
    LET slot == SlotAt(Data(StageOutput(st)), c.docIndex, c.sentenceIndex)
    IN  IF st = Entailment
        THEN At(slot.claimEvaluations, c.claimIndex).entailmentEvaluation
        ELSE slot.entailmentEvaluation

\* C6 (as claimed): in both entailment evaluators, the evaluation stored for a
\* claim whose generation call failed has the final conclusion
\* "S does not entail all elements of C".
C6_EntailmentFailClosed ==
    \A st \in {Entailment, BaselineEntailment} :
        Exists(StageOutput(st)) =>
            \A c \in FailedCalls(st) :
                IF HasSlot(Data(StageOutput(st)), c.docIndex, c.sentenceIndex)
                THEN Get(StoredEvaluation(st, c), "finalConclusion") = DoesNotEntail
                ELSE FALSE

\* sentences[start .. end), end exclusive
HalfOpen(sentences, start, end) == SubSeq(sentences, start + 1, end)

\* what the window of a call has to be
ExpectedWindow(a) ==
    HalfOpen(a.allSentences, Max(0, a.targetIndex - a.p),
             Min(Len(a.allSentences), a.targetIndex + a.f + 1))

FiveSentences == << "x0", "x1", "x2", "x3", "x4" >>

ExcerptExamples ==
    { <<[allSentences |-> FiveSentences, targetIndex |-> 2, p |-> 1, f |-> 2], "x1 x2 x3 x4">>,
      <<[allSentences |-> FiveSentences, targetIndex |-> 0, p |-> 3, f |-> 0], "x0">>,
      <<[allSentences |-> FiveSentences, targetIndex |-> 4, p |-> 0, f |-> 3], "x4">> }

\* C7: for 0 <= targetIndex < len, p >= 0 and f >= 0, each of the two
\* createExcerpt functions returns
\* sentences[max(0, targetIndex - p) .. min(len, targetIndex + f + 1)) joined by
\* single spaces; the window holds sentences[targetIndex] and at most p + f + 1
\* sentences; the three examples give "b c d e", "a" and "e".
C7_WindowCorrect ==
    \A builder \in {"deterministic", "baseline"} :
        \A k \in DOMAIN excerptOut[builder] :
            LET result == excerptOut[builder][k]
                a == excerptArgs
            IN  /\ result.parts = ExpectedWindow(a)
                /\ result.text = JsJoin(ExpectedWindow(a), " ")
                /\ Len(result.parts) <= a.p + a.f + 1
                /\ \E j \in DOMAIN result.parts :
                        /\ result.parts[j] = At(a.allSentences, a.targetIndex)
                        /\ j - 1 = a.targetIndex - Max(0, a.targetIndex - a.p)
                /\ \A ex \in ExcerptExamples : ex[1] = a => result.text = ex[2]

\* C7 witness: both functions have returned for a call whose window is cut
\* at the start and at the end of the list
C7_Witness ==
    /\ Len(excerptOut.deterministic) = 1
    /\ Len(excerptOut.baseline) = 1
    /\ excerptArgs.p > excerptArgs.targetIndex
    /\ excerptArgs.targetIndex > 0
    /\ excerptArgs.targetIndex + excerptArgs.f + 1 > Len(excerptArgs.allSentences)
    /\ excerptArgs.targetIndex + 1 < Len(excerptArgs.allSentences)

\* C8: filterVerifiableInformation keeps the number and order of documents and
\* of slots, turns into the pruned marker exactly the slots whose
\* sentenceWithOnlyVerifiableInformation is "None", and leaves every other slot
\* unchanged.
C8_FilterPrunesExactlyNone ==
    (run = "main" /\ Exists(PrunedFile)) =>
        LET in == Data(SelectionOutputFile)
            out == Data(PrunedFile)
        IN  /\ Len(out) = Len(in)
            /\ \A d \in DOMAIN in :
                /\ Len(out[d]) = Len(in[d])
                /\ \A i \in DOMAIN in[d] :
                    IF Get(in[d][i], "sentenceWithOnlyVerifiableInformation") = "None"
                    THEN out[d][i] = EmptyObject
                    ELSE out[d][i] = in[d][i] /\ ~IsEmptyObject(out[d][i])

\* C8 witness: the filter pruned one slot and kept another whose verdict is
\* "Does NOT contain ..."
C8_Witness ==
    /\ run = "main"
    /\ Exists(PrunedFile)
    /\ \E pos \in Positions(Data(PrunedFile)) : PrunedAt(PrunedFile, pos[1], pos[2])
    /\ \E pos \in Positions(Data(PrunedFile)) :
            Get(SlotAt(Data(PrunedFile), pos[1], pos[2]), "finalSubmission") = DoesNotContain

\* C9 (as claimed): every slot whose Selection verdict is "Does NOT contain a
\* specific and verifiable proposition" is the pruned marker after the filter,
\* and no Disambiguation call is issued for it.
C9_NonVerifiableNeverDisambiguated ==
    (run = "main" /\ Exists(PrunedFile)) =>
        \A pos \in Positions(Data(SelectionOutputFile)) :
            Get(SlotAt(Data(SelectionOutputFile), pos[1], pos[2]), "finalSubmission")
                    = DoesNotContain =>
                /\ PrunedAt(PrunedFile, pos[1], pos[2])
                /\ ~CalledAt(Disambiguation, pos[1], pos[2])

\* C10: for a populated slot of its input, Decomposition issues a generation
\* call if and only if canBeDisambiguated is true, whatever the text of
\* decontextualizedSentence; a slot with canBeDisambiguated = false becomes the
\* pruned marker without a call.
C10_DecompositionPruneRule ==
    (run = "main" /\ Exists(DisambiguationOutputFile)) =>
        \A pos \in Positions(Data(DisambiguationOutputFile)) :
            LET slot == SlotAt(Data(DisambiguationOutputFile), pos[1], pos[2])
                called == CalledAt(Decomposition, pos[1], pos[2])
            IN  ~IsEmptyObject(slot) =>
                    /\ called => slot.canBeDisambiguated
                    /\ Exists(DecompositionOutputFile) =>
                        /\ called <=> slot.canBeDisambiguated
                        /\ PrunedAt(DecompositionOutputFile, pos[1], pos[2])
                                <=> ~slot.canBeDisambiguated

\* C10 witness: Decomposition has run over a slot that is true with the text
\* "Cannot be decontextualized" and a slot that is false with another text
C10_Witness ==
    /\ run = "main"
    /\ Exists(DecompositionOutputFile)
    /\ \E pos \in Positions(Data(DisambiguationOutputFile)) :
        LET slot == SlotAt(Data(DisambiguationOutputFile), pos[1], pos[2])
        IN  /\ ~IsEmptyObject(slot)
            /\ slot.canBeDisambiguated
            /\ slot.decontextualizedSentence = CannotBeDecontextualized
            /\ CalledAt(Decomposition, pos[1], pos[2])
    /\ \E pos \in Positions(Data(DisambiguationOutputFile)) :
        LET slot == SlotAt(Data(DisambiguationOutputFile), pos[1], pos[2])
        IN  /\ ~IsEmptyObject(slot)
            /\ ~slot.canBeDisambiguated
            /\ slot.decontextualizedSentence # CannotBeDecontextualized
            /\ slot.decontextualizedSentence # ErrorMarker
            /\ PrunedAt(DecompositionOutputFile, pos[1], pos[2])

\* the entry point has gone past the statement named step
StepDone(step) == \E k \in DOMAIN Program(run) : Program(run)[k] = step /\ pc > k

\* the check unsafe_createContext makes on its two inputs, and the one on the
\* slots of a document: the filtered data and the original documents disagree
LengthMismatch ==
    /\ run = "main"
    /\ Exists(PrunedFile)
    /\ \/ Len(Data(PrunedFile)) # Len(Source)
       \/ \E d \in (DOMAIN Data(PrunedFile)) \cap (DOMAIN Source) :
            /\ HasTokens(Source[d])
            /\ Len(Data(PrunedFile)[d]) # Len(Source[d].tokenized_response)

\* C11 (as claimed): when the filtered data and the original documents
\* disagree in the number of documents, or in the number of slots of a
\* document, excerpt re-creation aborts: it writes no output artifact and
\* main() does not go on past it.
C11_LengthMismatchFatal ==
    LengthMismatch =>
        /\ ~Exists(DisambiguationInputFile)
        /\ ~StepDone("unsafe_createContext")

\* the first input of the entry point is unreadable or is not an array
StructuralInputError == run \in Runs /\ ~IsArray(files[FirstInput(run)])

\* C12 (as claimed): when the input of a step is unreadable or is not an
\* array, the step fails visibly to its caller: the entry point rejects at
\* that step, never goes on to a later statement and never resolves.
C12_StructuralErrorsSurfaced ==
    StructuralInputError =>
        /\ pc = 1
        /\ outcome # "resolved"
        /\ stage = "none"

\* the number of slots a stage finds in document doc of its input
SlotCount(st, doc) ==
    IF st = Selection
    THEN (IF HasTokens(doc) THEN Len(doc.tokenized_response) ELSE 0)
    ELSE Len(doc)

\* C13 (as claimed): a stage that has run to its end on an input array has
\* written one output artifact that covers every input document and holds, for
\* each document, one slot per input slot; no stage leaves an output that is
\* partial or mis-aligned with its input.
C13_AtomicStageOutput ==
    \A st \in Stages :
        (StepDone(st) /\ Exists(StageInput(st))) =>
            /\ Exists(StageOutput(st))
            /\ LET in == Data(StageInput(st))
                   out == Data(StageOutput(st))
               IN  /\ Len(out) = Len(in)
                   /\ \A d \in (DOMAIN in) \cap (DOMAIN out) :
                        Len(out[d]) = SlotCount(st, in[d])

\* the sentences of source document d (1-based position in the list)
SourceSentences(d) ==
    IF d \in DOMAIN Source
    THEN (IF HasTokens(Source[d])
          THEN {Source[d].tokenized_response[i] : i \in DOMAIN Source[d].tokenized_response}
          ELSE {})
    ELSE {}

\* C14 (as claimed): every artifact main() has written holds one slot sequence
\* per source document, in the order of the source documents, so that the
\* records at document index d come from source document d, also when a
\* document has no tokenized_response.
C14_DocumentAlignment ==
    run = "main" =>
        /\ \A n \in DOMAIN MainArtifacts :
            Exists(MainArtifacts[n]) => Len(Data(MainArtifacts[n])) = Len(Source)
        /\ Exists(SelectionOutputFile) =>
            \A d \in DOMAIN Data(SelectionOutputFile) :
                \A i \in DOMAIN Data(SelectionOutputFile)[d] :
                    Get(Data(SelectionOutputFile)[d][i], "sentence") \in SourceSentences(d)

\* C15 (as claimed): in every populated record of the Decomposition output,
\* whether its generation call resolved or failed,
\* specificVerifiablePropositions and propositionsWithContext have the same
\* length.
C15_ParallelPropositions ==
    (run = "main" /\ Exists(DecompositionOutputFile)) =>
        \A pos \in Positions(Data(DecompositionOutputFile)) :
            LET slot == SlotAt(Data(DecompositionOutputFile), pos[1], pos[2])
            IN  ~IsEmptyObject(slot) =>
                    Len(slot.specificVerifiablePropositions)
                        = Len(slot.propositionsWithContext)

\* C16: a surviving slot whose Decomposition call failed is stored as a
\* populated record with both proposition sequences empty, the error marker in
\* referentialTermsAnalysis, maxClarifiedSentence and propositionRange, and the
\* query and excerpt of the input slot.
C16_DecompositionFailureDefault ==
    Exists(DecompositionOutputFile) =>
        \A c \in FailedCalls(Decomposition) :
            /\ HasSlot(Data(DecompositionOutputFile), c.docIndex, c.sentenceIndex)
            /\ LET slot == SlotAt(Data(DecompositionOutputFile), c.docIndex, c.sentenceIndex)
                   input == SlotAt(Data(DisambiguationOutputFile), c.docIndex, c.sentenceIndex)
               IN  /\ ~IsEmptyObject(slot)
                   /\ slot.specificVerifiablePropositions = << >>
                   /\ slot.propositionsWithContext = << >>
                   /\ slot.referentialTermsAnalysis = ErrorMarker
                   /\ slot.maxClarifiedSentence = ErrorMarker
                   /\ slot.propositionRange = ErrorMarker
                   /\ Get(slot, "query") = Get(input, "query")
                   /\ Get(slot, "excerpt") = Get(input, "excerpt")

\* C16 witness: Decomposition has written its output after a call failed for
\* a slot that has a query and an excerpt
C16_Witness ==
    /\ Exists(DecompositionOutputFile)
    /\ \E c \in FailedCalls(Decomposition) :
        LET input == SlotAt(Data(DisambiguationOutputFile), c.docIndex, c.sentenceIndex)
        IN  /\ Get(input, "query") = QueryText(c.docIndex)
            /\ Get(input, "excerpt") # JsUndefined
            /\ Get(input, "excerpt") # ""

\* the number of elements of a coverage evaluation classified as status
CountStatus(results, status) ==
    Cardinality({j \in DOMAIN results : results[j].coverageStatus = status})

\* C17 (as claimed): the metrics stored in a coverage record are the counts of
\* its element classifications (verifiable and covered, verifiable and not
\* covered, non-verifiable and covered, non-verifiable and not covered), and the
\* four numbers add up to the number of evaluated elements.
C17_CoverageConfusionCounts ==
    Exists(CoverageOutputFile) =>
        \A c \in CallsOf(Coverage) :
            c.outcome = "success" =>
                LET slot == SlotAt(Data(CoverageOutputFile), c.docIndex, c.sentenceIndex)
                    results == slot.coverageEvaluation.elementCoverageResults
                    metrics == slot.coverageEvaluation.metrics
                IN  /\ metrics.truePositives = CountStatus(results, FullyCovered)
                    /\ metrics.falseNegatives = CountStatus(results, NotCovered)
                    /\ metrics.falsePositives = 0
                    /\ metrics.trueNegatives = CountStatus(results, CorrectlyNotCovered)
                    /\ metrics.truePositives + metrics.falseNegatives
                            + metrics.falsePositives + metrics.trueNegatives
                        = Len(slot.elementExtraction.elements)

\* the stages of the pipeline that call the generation capability
GenerativeStages == {Selection, Disambiguation, Decomposition, Entailment, ElementExtraction,
                     Coverage}

\* the record written at the slot of a call carries the context the call was
\* made with
CarriesContext(st, c) ==
    IF HasSlot(Data(StageOutput(st)), c.docIndex, c.sentenceIndex)
    THEN LET slot == SlotAt(Data(StageOutput(st)), c.docIndex, c.sentenceIndex)
         IN  /\ Get(slot, "query") = c.prompt.query
             /\ Get(slot, "excerpt") = c.prompt.excerpt
             /\ \/ Get(slot, "sentence") = c.prompt.sentence
                \/ Get(slot, "originalSentence") = c.prompt.sentence
    ELSE FALSE

\* C18 (as claimed): in every generative stage, the record stored after a
\* successful generation call carries the query, the excerpt and the original
\* sentence of its input slot, with the values of the input slot.
C18_CarriedOverContext ==
    \A st \in GenerativeStages :
        Exists(StageOutput(st)) =>
            \A c \in CallsOf(st) : c.outcome = "success" => CarriesContext(st, c)

\* the record a stage stored for a call: the claim's entry at Entailment, the
\* slot elsewhere
StoredRecord(st, c) ==
    LET slot == SlotAt(Data(StageOutput(st)), c.docIndex, c.sentenceIndex)
    IN  IF st = Entailment THEN At(slot.claimEvaluations, c.claimIndex) ELSE slot

EvaluationFields == {"entailmentEvaluation", "elementExtraction", "coverageEvaluation"}

\* the fields of a record and of the evaluation it holds
Shape(record) ==
    [fields |-> DOMAIN record,
     nested |-> {<<k, DOMAIN record[k]>> : k \in EvaluationFields \cap DOMAIN record}]

\* C19 (as claimed): in every generative stage, the record stored after a
\* failed generation call has the same fields as the record stored after a
\* successful call of the stage for the same document.
C19_SameShapeSentinel ==
    \A st \in GenerativeStages :
        Exists(StageOutput(st)) =>
            \A c \in FailedCalls(st) :
                /\ HasSlot(Data(StageOutput(st)), c.docIndex, c.sentenceIndex)
                /\ \A ok \in CallsOf(st) :
                    (/\ ok.outcome = "success"
                     /\ ok.docIndex = c.docIndex
                     /\ HasSlot(Data(StageOutput(st)), ok.docIndex, ok.sentenceIndex)) =>
                        Shape(StoredRecord(st, c)) = Shape(StoredRecord(st, ok))

\* call a comes before call b in the order of the loops
LoopOrder(a, b) ==
    \/ a.docIndex < b.docIndex
    \/ a.docIndex = b.docIndex /\ a.sentenceIndex < b.sentenceIndex
    \/ /\ a.docIndex = b.docIndex
       /\ a.sentenceIndex = b.sentenceIndex
       /\ a.stage = Entailment
       /\ a.claimIndex < b.claimIndex

\* C20: within a stage run, generation calls are issued in increasing document
\* index, then sentence index, then (at Entailment) claim index; a call is
\* issued only after the previous one has resolved or failed, so at most one
\* call is in flight.
C20_SequentialCalls ==
    /\ Len(inflight) <= 1
    /\ \A k \in DOMAIN calls :
        /\ calls[k].outcome = "pending" => (k = Len(calls) /\ inflight = << calls[k] >>)
        /\ (k < Len(calls) /\ calls[k].stage = calls[k + 1].stage) =>
                LoopOrder(calls[k], calls[k + 1])
    /\ inflight # << >> => (calls # << >> /\ calls[Len(calls)] = inflight[1])

\* C20 witness: a call is in flight after calls for two claims of one sentence
\* and for sentences of two documents were issued
C20_Witness ==
    /\ inflight # << >>
    /\ \E j, k \in DOMAIN calls :
        /\ calls[j].docIndex = calls[k].docIndex
        /\ calls[j].sentenceIndex = calls[k].sentenceIndex
        /\ calls[j].claimIndex < calls[k].claimIndex
    /\ \E j, k \in DOMAIN calls : calls[j].docIndex < calls[k].docIndex

\* the stage has to issue a generation call for the slot
NeedsCall(st, slot) ==
    IF PassedOn(st, slot) THEN FALSE
    ELSE IF st = Entailment THEN Len(slot.propositionsWithContext) > 0
    ELSE TRUE

\* the slots of the input of a stage, as positions (d, i)
InputSlots(st) ==
    LET in == Data(StageInput(st))
    IN  {<<d, i>> \in (0..(Len(in) - 1)) \X (0..(MaxSents - 1)) :
            IF st = Selection /\ invalidItem(in[d + 1]) THEN FALSE
            ELSE i < Len(Slots(st, in[d + 1]))}

\* every stage of the entry point has written its output and the entry point
\* has resolved
Finished ==
    /\ outcome = "resolved"
    /\ \A k \in DOMAIN Program(run) :
        Program(run)[k] \in Stages => Exists(StageOutput(Program(run)[k]))

\* a stage that has ended issued a call for every slot that needs one
NoCallPrevented ==
    \A st \in Stages :
        (StepDone(st) /\ Exists(StageInput(st))) =>
            \A pos \in InputSlots(st) :
                NeedsCall(st, At(Slots(st, At(Data(StageInput(st)), pos[1])), pos[2])) =>
                    CalledAt(st, pos[1], pos[2])

\* C21: on an input that is an array, every entry point eventually resolves
\* with the output of each of its stages written, whichever generation calls
\* fail; a failed call prevents no call for a later slot or document.
C21_StageTermination ==
    /\ [] NoCallPrevented
    /\ (run \in Runs /\ Exists(FirstInput(run))) ~> Finished

\* C21 witness: the entry point has resolved with its outputs written after a
\* call failed and a call for a later slot was issued
C21_Witness ==
    /\ Finished
    /\ \E j, k \in DOMAIN calls :
        /\ j < k
        /\ calls[j].outcome = "failure"
        /\ calls[j].stage = calls[k].stage

\* C22 (as claimed): every populated slot entering Disambiguation at position
\* (d, i) holds the Selection record of sentence i of source document d, with
\* the query of document d and the excerpt built around sentence i of
\* document d, also when a Selection call failed or a document was skipped.
C22_ExcerptProvenance ==
    (run = "main" /\ Exists(DisambiguationInputFile)) =>
        \A pos \in Positions(Data(DisambiguationInputFile)) :
            LET slot == SlotAt(Data(DisambiguationInputFile), pos[1], pos[2])
                doc == At(Source, pos[1])
            IN  ~IsEmptyObject(slot) =>
                    IF pos[1] < Len(Source) /\ HasTokens(doc)
                    THEN /\ Get(slot, "sentence") = At(doc.tokenized_response, pos[2])
                         /\ Get(slot, "query") = doc.query
                         /\ Get(slot, "excerpt") =
                                createExcerpt(doc.tokenized_response, pos[2],
                                              DisambiguationP, DisambiguationF)
                    ELSE FALSE

\* the spellings of the "unchanged" sentinel: the one the Selection prompt
\* uses and the one the description of the schema field gives
UnchangedSpellings == {"remains unchanged", "Remains Unchanged"}

\* C23 (as claimed): the sentence sent to the Disambiguation call of a
\* populated slot is the original sentence when the Selection rewrite is the
\* "unchanged" sentinel in any of its spellings, the rewrite text otherwise,
\* and is never the sentinel text itself.
C23_SentenceForDisambiguation ==
    \A c \in CallsOf(Disambiguation) :
        LET slot == SlotAt(Data(DisambiguationInputFile), c.docIndex, c.sentenceIndex)
            rewrite == Get(slot, "sentenceWithOnlyVerifiableInformation")
        IN  /\ c.prompt.sentence \notin UnchangedSpellings
            /\ IF rewrite \in UnchangedSpellings
               THEN c.prompt.sentence = Get(slot, "sentence")
               ELSE c.prompt.sentence = rewrite

DownstreamStages == {Disambiguation, Decomposition, Entailment, ElementExtraction, Coverage}

\* C24: a downstream stage that has run on an array of arrays has written an
\* output with as many documents as the input, as many slots per document as
\* the input, and the pruned marker wherever the input has it, whichever
\* generation calls failed.
C24_DownstreamAlignment ==
    \A st \in DownstreamStages :
        (StepDone(st) /\ Exists(StageInput(st))) =>
            /\ Exists(StageOutput(st))
            /\ LET in == Data(StageInput(st))
                   out == Data(StageOutput(st))
               IN  /\ Len(out) = Len(in)
                   /\ \A d \in DOMAIN in :
                        /\ Len(out[d]) = Len(in[d])
                        /\ \A i \in DOMAIN in[d] :
                            IsEmptyObject(in[d][i]) => IsEmptyObject(out[d][i])

\* C24 witness: Decomposition has ended in a run where the filter pruned a
\* slot and a Disambiguation call failed for another
C24_Witness ==
    /\ run = "main"
    /\ StepDone(Decomposition)
    /\ FailedCalls(Disambiguation) # {}
    /\ \E pos \in Positions(Data(DisambiguationInputFile)) :
            PrunedAt(DisambiguationInputFile, pos[1], pos[2])

\* the positions in the call log of the Entailment calls for claim j of slot (d, i)
EntailmentCallsFor(d, i, j) ==
    {k \in DOMAIN calls :
        /\ calls[k].stage = Entailment
        /\ calls[k].docIndex = d
        /\ calls[k].sentenceIndex = i
        /\ calls[k].claimIndex = j}

\* C25: for every populated slot, entailmentEvaluator issues exactly one call
\* per element of propositionsWithContext and stores as many claimEvaluations,
\* in the same order, each with its claim text; a slot with no claims causes
\* no call and is stored as a populated record with no claimEvaluations.
C25_EntailmentCardinality ==
    (StepDone(Entailment) /\ Exists(StageInput(Entailment))) =>
        \A pos \in Positions(Data(StageInput(Entailment))) :
            LET input == SlotAt(Data(StageInput(Entailment)), pos[1], pos[2])
                stored == SlotAt(Data(StageOutput(Entailment)), pos[1], pos[2])
            IN  ~IsEmptyObject(input) =>
                    LET claims == input.propositionsWithContext
                    IN  /\ ~IsEmptyObject(stored)
                        /\ Len(stored.claimEvaluations) = Len(claims)
                        /\ \A j \in DOMAIN claims :
                            /\ stored.claimEvaluations[j].claim = claims[j]
                            /\ Cardinality(EntailmentCallsFor(pos[1], pos[2], j - 1)) = 1
                            /\ \A k \in EntailmentCallsFor(pos[1], pos[2], j - 1) :
                                    calls[k].prompt.claim = claims[j]
                        /\ \A j \in Len(claims)..MaxClaims :
                            EntailmentCallsFor(pos[1], pos[2], j) = {}

\* C25 witness: entailmentEvaluator has ended on an input with a slot of two
\* claims and a slot of no claims
C25_Witness ==
    /\ StepDone(Entailment)
    /\ \E pos \in Positions(Data(StageInput(Entailment))) :
        LET input == SlotAt(Data(StageInput(Entailment)), pos[1], pos[2])
        IN  IF IsEmptyObject(input) THEN FALSE
            ELSE Len(input.propositionsWithContext) = 2
    /\ \E pos \in Positions(Data(StageInput(Entailment))) :
        LET input == SlotAt(Data(StageInput(Entailment)), pos[1], pos[2])
        IN  IF IsEmptyObject(input) THEN FALSE
            ELSE Len(input.propositionsWithContext) = 0

\* the populated slots of the Coverage input whose elementExtraction is a string
FailedExtractions ==
    {pos \in Positions(Data(StageInput(Coverage))) :
        LET input == SlotAt(Data(StageInput(Coverage)), pos[1], pos[2])
        IN  IF IsEmptyObject(input) THEN FALSE ELSE IsJsString(input.elementExtraction)}

\* position b comes after position a in the order of the two loops
ComesAfter(a, b) == IF b[1] = a[1] THEN b[2] > a[2] ELSE b[1] > a[1]

\* C26: for a slot whose elementExtraction is an error string, Coverage issues
\* no generation call, stores a populated record with every input field
\* unchanged and a coverageEvaluation that is the SKIPPED marker followed by
\* the extraction error text, and goes on to the slots after it.
C26_CoverageSkipsFailedExtraction ==
    (StepDone(Coverage) /\ Exists(StageInput(Coverage))) =>
        \A pos \in FailedExtractions :
            LET in == Data(StageInput(Coverage))
                out == Data(StageOutput(Coverage))
                input == SlotAt(in, pos[1], pos[2])
            IN  /\ ~CalledAt(Coverage, pos[1], pos[2])
                /\ HasSlot(out, pos[1], pos[2])
                /\ LET stored == SlotAt(out, pos[1], pos[2])
                   IN  /\ DOMAIN stored = (DOMAIN input) \cup {"coverageEvaluation"}
                       /\ \A f \in DOMAIN input : stored[f] = input[f]
                       /\ IsJsString(stored.coverageEvaluation)
                       /\ stored.coverageEvaluation.string =
                            "SKIPPED: Element extraction failed - "
                                \o input.elementExtraction.string
                /\ \A later \in Positions(in) :
                        ComesAfter(pos, later) =>
                            /\ HasSlot(out, later[1], later[2])
                            /\ (later \notin FailedExtractions
                                /\ ~IsEmptyObject(SlotAt(in, later[1], later[2])))
                                    => CalledAt(Coverage, later[1], later[2])

\* C26 witness: Coverage has ended on an input where a slot with a failed
\* extraction comes before a slot with extracted elements
C26_Witness ==
    /\ StepDone(Coverage)
    /\ Exists(StageInput(Coverage))
    /\ \E pos \in FailedExtractions :
        \E later \in Positions(Data(StageInput(Coverage))) :
            /\ ComesAfter(pos, later)
            /\ CalledAt(Coverage, later[1], later[2])

MainSteps == DOMAIN Program("main")

\* the positions in main() of the statements that write file f
WritersOf(f) == {k \in MainSteps : StepWrites(Program("main")[k]) = f}

\* every file a statement of main() reads is the source documents or is
\* written by exactly one statement, an earlier one; no file is written twice
\* and the source documents are written by none
WiredOnce ==
    /\ WritersOf(SourceFile) = {}
    /\ \A f \in FileNames : Cardinality(WritersOf(f)) <= 1
    /\ \A k \in MainSteps :
        \A f \in StepReads(Program("main")[k]) \ {SourceFile} :
            /\ Cardinality(WritersOf(f)) = 1
            /\ \A w \in WritersOf(f) : w < k

\* a step of main() that changes the files changes one file: the one the
\* running statement is called to write, which did not exist before, is not
\* the source documents and is not read by that statement
WritesOnlyItsOutput ==
    (run = "main" /\ files' # files) =>
        \E f \in FileNames \ {SourceFile} :
            /\ f = StepWrites(CurrentStep)
            /\ f \notin StepReads(CurrentStep)
            /\ ~files[f].exists
            /\ files'[f].exists
            /\ \A g \in FileNames \ {f} : files'[g] = files[g]

\* C27: in the run wired by main(), every intermediate artifact is written by
\* exactly one statement and read only by later ones, no statement writes the
\* artifact it reads, the source documents are never written, and a written
\* artifact is never changed afterwards.
C27_ArtifactsWrittenOnce == [][WiredOnce /\ WritesOnlyItsOutput]_vars

\* C27 witness: main() has resolved and every artifact of the run is written
C27_Witness ==
    /\ run = "main"
    /\ outcome = "resolved"
    /\ \A k \in MainSteps : Exists(StepWrites(Program("main")[k]))
    /\ \E d \in DOMAIN Data(DecompositionOutputFile) :
            Data(DecompositionOutputFile)[d] # << >>

\* C28: for every sentence list, every targetIndex in range, every p >= 0
\* and every f >= 0, the deterministic createExcerpt and the baseline
\* createExcerpt return the same string.
C28_ExcerptBuildersAgree ==
    (Len(excerptOut.deterministic) = 1 /\ Len(excerptOut.baseline) = 1) =>
        excerptOut.deterministic[1].text = excerptOut.baseline[1].text

\* C28 witness: both functions have returned for a call with sentences on
\* both sides of the target, the window cut by neither end of the list
C28_Witness ==
    /\ Len(excerptOut.deterministic) = 1
    /\ Len(excerptOut.baseline) = 1
    /\ excerptArgs.p > 0
    /\ excerptArgs.f > 0
    /\ excerptArgs.targetIndex - excerptArgs.p > 0
    /\ excerptArgs.targetIndex + excerptArgs.f + 1 < Len(excerptArgs.allSentences)
    /\ excerptOut.baseline[1].text = "x1 x2 x3"

\* out is an output the coverage function can write for the input in when it
\* is the only function running
WrittenAlone(in, out, success(_, _), error(_)) ==
    /\ Len(out) = Len(in)
    /\ \A d \in DOMAIN in :
        /\ Len(out[d]) = Len(in[d])
        /\ \A i \in DOMAIN in[d] :
            LET slot == in[d][i]
                stored == out[d][i]
            IN  IF IsEmptyObject(slot) THEN IsEmptyObject(stored)
                ELSE IF IsJsString(slot.elementExtraction)
                THEN stored = JsonObject(CoverageSkipped(slot))
                ELSE \/ stored = JsonObject(error(slot))
                     \/ \E o \in CoverageLlmOutputs(slot.elementExtraction.elements) :
                            stored = JsonObject(success(slot, o))

\* nothing more happens: both functions have ended, or the process has
LoadEnded ==
    \/ process = "exited"
    \/ outcome # "running" /\ baseline.outcome \in {"resolved", "rejected"}

\* C29 (as claimed): the two coverage runs started by loading the baseline
\* module do not affect each other: when nothing more happens, each run whose
\* input is an array of arrays has written the output it writes when it runs
\* alone, whatever the interleaving of the two.
C29_IndependentRuns ==
    LoadEnded =>
        /\ IsArray(files[ExtractedElementsFile]) =>
            /\ Exists(CoverageOutputFile)
            /\ WrittenAlone(Data(ExtractedElementsFile), Data(CoverageOutputFile),
                            CoverageSuccess, CoverageError)
        /\ IsArray(files[BaselineCoverageInputFile]) =>
            /\ Exists(BaselineCoverageOutputFile)
            /\ WrittenAlone(Data(BaselineCoverageInputFile),
                            Data(BaselineCoverageOutputFile),
                            BaselineCoverageSuccess, BaselineCoverageError)

\* C30: in baselineClaimExtractor a failed generation call leaves an empty
\* claim list for its document and the other documents are still processed:
\* a failed call never rejects the function, and the output written for an
\* array of documents has one claim list per document, in input order, after
\* exactly one call per document.
C30_ExtractionFailureLocal ==
    (run = BaselineExtraction /\ IsArray(files[SourceFile])) =>
        /\ outcome # "rejected"
        /\ Len(finalGroupedOutput) = docIndex
        /\ outcome = "resolved" =>
            /\ Exists(BaselineOutputFile)
            /\ LET out == Data(BaselineOutputFile)
               IN  /\ Len(out) = Len(Source)
                   /\ \A d \in DOMAIN Source :
                        /\ Cardinality({k \in DOMAIN calls : calls[k].docIndex = d - 1}) = 1
                        /\ \A k \in DOMAIN calls :
                            (calls[k].docIndex = d - 1 /\ calls[k].outcome = "failure")
                                => out[d] = << >>
                        /\ \A c \in DOMAIN out[d] :
                            /\ out[d][c].filename = Source[d].filename
                            /\ out[d][c].query = Source[d].query

\* C30 witness: the function has resolved on two documents, the call for the
\* first failed and the call for the second returned a claim
C30_Witness ==
    /\ run = BaselineExtraction
    /\ outcome = "resolved"
    /\ Len(calls) = 2
    /\ calls[1].outcome = "failure"
    /\ calls[2].outcome = "success"
    /\ Exists(BaselineOutputFile)
    /\ Len(Data(BaselineOutputFile)) = 2
    /\ Data(BaselineOutputFile)[2] # << >>

====
